---- MODULE Spec2Model ----
(***************************************************************************)
(* Sokoban solver: puzzle states, successor generation, static deadlock    *)
(* detection, the six *_return_path search strategies with cooperative     *)
(* cancellation, and the AsyncSolver wrapper.                              *)
(*                                                                         *)
(* A grid position (Point) is a pair <<x, y>>, x the row and y the column, *)
(* both 1-based.  A puzzle (Sokoban) is a record                           *)
(*   [rows, cols, walls, storages, boxes, player].                         *)
(* A search node (State) is a record [player, boxes, move]; walls,         *)
(* storages, dimensions and the deadlock set are shared by every node of   *)
(* one search and are kept in the variables board and deadlocks.           *)
(***************************************************************************)
EXTENDS Integers, Sequences, FiniteSets, TLC

VARIABLES
    board,        \* the puzzle the loader produced (Sokoban)
    deadlocks,    \* DeadLockDetector.get_deadlock() of board
    algo,         \* which *_return_path strategy runs
    heuristic,    \* heuristic name handed to greedy / astar
    depth_step,   \* ids_return_path's parameter depth_step
    max_limit,    \* ids_return_path's parameter max_limit
    stop_cb,      \* "none": no stop predicate; "is_set": cancel_event.is_set
    cancel_event, \* the threading.Event the stop predicate reads
    pc,           \* "run" while the strategy loops, "done" once it returned
    frontier,     \* deque / stack: sequence of State; heap: sequence of <<priority, count, State>>
    visited,      \* visited set of configurations (bfs, dfs, ids, greedy)
    best_g,       \* best_g dictionary (ucs, astar): configuration -> path length
    counter,      \* next value of itertools.count()
    limit,        \* current depth bound of ids
    expanded,     \* the strategy's expanded counter
    path,         \* the returned move sequence; in the UI the list moves that is replayed
    found,        \* the State whose reached_goal() made the strategy return, or NoState
    polls,        \* history: how many times stop_cb() was called
    stopped,      \* history: the strategy returned because _should_stop was true
    total,        \* history: node expansions of the whole call
    since,        \* history: node expansions since cancel_event was set
    scene,        \* UI scene: "solving", "running", "finished", "menu", "crashed"
    sk,           \* the mutable Sokoban the UI replays moves on: [boxes, player]
    applied,      \* history: what apply_move_to_sokoban returned for each replayed token
    solved,       \* the UI's solved flag
    _running,     \* AsyncSolver._running
    result,       \* AsyncSolver.result: <<>> for None, else <<SolverResult>>
    _expanded_snapshot, \* AsyncSolver._expanded_snapshot
    progress_q,   \* AsyncSolver.progress_q: sequence of <<expanded, elapsed>>
    _th,          \* the worker thread: "none", "solve", "finally", "exit"
    starts,       \* history: how many start() calls returned True
    calls,        \* per caller thread: where its start() call stands
    threads,      \* per caller thread: where the worker it launched stands
    obj,          \* a State object: [player, boxes, move, _neighbors_cache]
    obj0,         \* history: obj as its constructor left it
    returned,     \* history: what each get_neighbors() call on obj returned
    cached,       \* _neighbors_cache of the State objects under a kept root: move history -> list
    runs,         \* history: the searches finished on the kept root: [algo, pc, path, total]
    file,         \* the five number lines of the map file handed to Sokoban(filename)
    map_index,    \* the UI's map_index: which map of the list is selected
    algo_index,   \* the UI's algo_index: "BFS" or "A*"
    solver_done,  \* the UI's solver_done flag
    solver_result, \* the UI's solver_result list
    workers,      \* the _worker threads start_solve launched: [map, at, algo, expanded, ret]
    result_by,    \* history: the worker that assigned solver_result (0: start_solve)
    moves_by,     \* history: the worker whose result apply_solution_and_run copied to moves
    queued_by,    \* history: for each entry of progress_q, the number of the solve that put it
    polled        \* history: the last update poll_progress returned: << >> or <<[by, at]>>

svars == <<board, deadlocks, algo, heuristic, depth_step, max_limit, stop_cb, cancel_event, pc, frontier,
           visited, best_g, counter, limit, expanded, path, found, polls, stopped,
           total, since>>
uvars == <<scene, sk, applied, solved>>
avars == <<_running, result, _expanded_snapshot, progress_q, _th, starts, calls, threads>>
nvars == <<obj, obj0, returned, cached, runs>>
lvars == <<file>>
gvars == <<map_index, algo_index, solver_done, solver_result, workers, result_by, moves_by>>
pvars == <<queued_by, polled>>
vars == <<svars, uvars, avars, nvars, lvars, gvars, pvars>>

-----------------------------------------------------------------------------
(* Bounds of the model *)

MaxBoxes == 1
MaxStorages == 1
MaxWalls == 2

-----------------------------------------------------------------------------
(* Program constants *)

CHECK_EVERY == 2048
IDS_START == 50
DEPTH_STEP == 10
MAX_LIMIT == 500

-----------------------------------------------------------------------------
(* point.py *)

Point(x, y) == <<x, y>>

Abs(n) == IF n < 0 THEN -n ELSE n

Min(S) == CHOOSE m \in S : \A n \in S : m <= n

Cells(rows, cols) == (1..rows) \X (1..cols)

-----------------------------------------------------------------------------
(* state.py *)

inbound(b, x, y) == 1 <= x /\ x <= b.rows /\ 1 <= y /\ y <= b.cols

reached_goal(b, s) == \A bx \in s.boxes : bx \in b.storages

\* mutation of _try_move: the deadlock set is not consulted
_try_move_nodl(b, dl, s, ax, ay, bx, by, m) ==
    IF ~inbound(b, ax, ay) THEN <<>>
    ELSE IF Point(ax, ay) \in b.walls THEN <<>>
    ELSE IF Point(ax, ay) \notin s.boxes
         THEN << [player |-> Point(ax, ay), boxes |-> s.boxes, move |-> Append(s.move, m)] >>
    ELSE IF ~inbound(b, bx, by) THEN <<>>
    ELSE IF Point(bx, by) \in b.walls \/ Point(bx, by) \in s.boxes THEN <<>>
    ELSE << [player |-> Point(ax, ay),
             boxes  |-> (s.boxes \ {Point(ax, ay)}) \cup {Point(bx, by)},
             move   |-> Append(s.move, m)] >>

\* mutation of _try_move: every push is refused
_try_move_nopush(b, dl, s, ax, ay, bx, by, m) ==
    IF ~inbound(b, ax, ay) THEN <<>>
    ELSE IF Point(ax, ay) \in b.walls THEN <<>>
    ELSE IF Point(ax, ay) \notin s.boxes
         THEN << [player |-> Point(ax, ay), boxes |-> s.boxes, move |-> Append(s.move, m)] >>
    ELSE <<>>

\* mutation of _try_move: a push leaves a box behind on the cell it came from
_try_move_keepbox(b, dl, s, ax, ay, bx, by, m) ==
    IF ~inbound(b, ax, ay) THEN <<>>
    ELSE IF Point(ax, ay) \in b.walls THEN <<>>
    ELSE IF Point(ax, ay) \notin s.boxes
         THEN << [player |-> Point(ax, ay), boxes |-> s.boxes, move |-> Append(s.move, m)] >>
    ELSE IF ~inbound(b, bx, by) THEN <<>>
    ELSE IF Point(bx, by) \in b.walls \/ Point(bx, by) \in s.boxes THEN <<>>
    ELSE IF Point(bx, by) \in dl THEN <<>>
    ELSE << [player |-> Point(ax, ay),
             boxes  |-> s.boxes \cup {Point(bx, by)},
             move   |-> Append(s.move, m)] >>

\* mutation of _try_move: the deadlock set is asked about the cell the box
\* leaves, not the cell it is pushed to
_try_move_dlfrom(b, dl, s, ax, ay, bx, by, m) ==
    IF ~inbound(b, ax, ay) THEN <<>>
    ELSE IF Point(ax, ay) \in b.walls THEN <<>>
    ELSE IF Point(ax, ay) \notin s.boxes
         THEN << [player |-> Point(ax, ay), boxes |-> s.boxes, move |-> Append(s.move, m)] >>
    ELSE IF ~inbound(b, bx, by) THEN <<>>
    ELSE IF Point(bx, by) \in b.walls \/ Point(bx, by) \in s.boxes THEN <<>>
    ELSE IF Point(ax, ay) \in dl THEN <<>>
    ELSE << [player |-> Point(ax, ay),
             boxes  |-> (s.boxes \ {Point(ax, ay)}) \cup {Point(bx, by)},
             move   |-> Append(s.move, m)] >>

\* _try_move: the list of states (empty or one state) appended to out
_try_move(b, dl, s, ax, ay, bx, by, m) ==
    IF ~inbound(b, ax, ay) THEN <<>>
    ELSE IF Point(ax, ay) \in b.walls THEN <<>>
    ELSE IF Point(ax, ay) \notin s.boxes
         THEN << [player |-> Point(ax, ay), boxes |-> s.boxes, move |-> Append(s.move, m)] >>
    ELSE IF ~inbound(b, bx, by) THEN <<>>
    ELSE IF Point(bx, by) \in b.walls \/ Point(bx, by) \in s.boxes THEN <<>>
    ELSE IF Point(bx, by) \in dl THEN <<>>
    ELSE << [player |-> Point(ax, ay),
             boxes  |-> (s.boxes \ {Point(ax, ay)}) \cup {Point(bx, by)},
             move   |-> Append(s.move, m)] >>

\* get_neighbors trying left before down
get_neighbors_uldr(b, dl, s) ==
    LET x == s.player[1]
        y == s.player[2]
    IN  _try_move(b, dl, s, x - 1, y, x - 2, y, "u")
        \o _try_move(b, dl, s, x, y - 1, x, y - 2, "l")
        \o _try_move(b, dl, s, x + 1, y, x + 2, y, "d")
        \o _try_move(b, dl, s, x, y + 1, x, y + 2, "r")

get_neighbors(b, dl, s) ==
    LET x == s.player[1]
        y == s.player[2]
    IN  _try_move(b, dl, s, x - 1, y, x - 2, y, "u")
        \o _try_move(b, dl, s, x + 1, y, x + 2, y, "d")
        \o _try_move(b, dl, s, x, y - 1, x, y - 2, "l")
        \o _try_move(b, dl, s, x, y + 1, x, y + 2, "r")

L1(p, q) == Abs(p[1] - q[1]) + Abs(p[2] - q[2])

\* manhatten is a partial function: min() of an empty storage list raises
manhatten_defined(b, s) == s.boxes = {} \/ b.storages # {}

RECURSIVE SumNearest(_, _)
SumNearest(boxes, goals) ==
    IF boxes = {} THEN 0
    ELSE LET bx == CHOOSE c \in boxes : TRUE
         IN  Min({L1(bx, g) : g \in goals}) + SumNearest(boxes \ {bx}, goals)

manhatten(b, s) ==
    LET p2b == IF s.boxes # {} THEN Min({L1(s.player, bx) : bx \in s.boxes}) ELSE 0
    IN  p2b + SumNearest(s.boxes, b.storages)

\* identity of a State: __eq__ / __hash__ use player and boxes only
Key(s) == [player |-> s.player, boxes |-> s.boxes]

-----------------------------------------------------------------------------
(* deadlock_detector.py *)

get_right_neighbor(c) == Point(c[1], c[2] + 1)
get_left_neighbor(c)  == Point(c[1], c[2] - 1)
get_up_neighbor(c)    == Point(c[1] - 1, c[2])
get_down_neighbor(c)  == Point(c[1] + 1, c[2])

\* corner_test without the pair down and left
corner_test_three(b, c) ==
    LET up    == get_up_neighbor(c)
        down  == get_down_neighbor(c)
        right == get_right_neighbor(c)
        left  == get_left_neighbor(c)
    IN  \/ (up \in b.walls /\ right \in b.walls)
        \/ (up \in b.walls /\ left \in b.walls)
        \/ (down \in b.walls /\ right \in b.walls)

corner_test(b, c) ==
    LET up    == get_up_neighbor(c)
        down  == get_down_neighbor(c)
        right == get_right_neighbor(c)
        left  == get_left_neighbor(c)
    IN  \/ (up \in b.walls /\ right \in b.walls)
        \/ (up \in b.walls /\ left \in b.walls)
        \/ (down \in b.walls /\ left \in b.walls)
        \/ (down \in b.walls /\ right \in b.walls)

RECURSIVE ScanUp(_, _, _)
ScanUp(b, x, y) ==
    IF x >= 0
    THEN IF Point(x, y) \in b.walls THEN x
         ELSE IF Point(x, y) \in b.storages THEN -1
         ELSE ScanUp(b, x - 1, y)
    ELSE 0

RECURSIVE ScanDown(_, _, _)
ScanDown(b, x, y) ==
    IF x < b.rows
    THEN IF Point(x, y) \in b.walls THEN x
         ELSE IF Point(x, y) \in b.storages THEN -1
         ELSE ScanDown(b, x + 1, y)
    ELSE b.rows

RECURSIVE ScanRight(_, _, _)
ScanRight(b, x, y) ==
    IF y < b.cols
    THEN IF Point(x, y) \in b.walls THEN y
         ELSE IF Point(x, y) \in b.storages THEN -1
         ELSE ScanRight(b, x, y + 1)
    ELSE b.cols

RECURSIVE ScanLeft(_, _, _)
ScanLeft(b, x, y) ==
    IF y >= 0
    THEN IF Point(x, y) \in b.walls THEN y
         ELSE IF Point(x, y) \in b.storages THEN -1
         ELSE ScanLeft(b, x, y - 1)
    ELSE 0

find_nearest_upbound(b, a)    == ScanUp(b, a[1] - 1, a[2])
find_nearest_downbound(b, a)  == ScanDown(b, a[1] + 1, a[2])
find_nearest_rightbound(b, a) == ScanRight(b, a[1], a[2] + 1)
find_nearest_leftbound(b, a)  == ScanLeft(b, a[1], a[2] - 1)

boundary_test(b, c) ==
    LET x == c[1]
        y == c[2]
        upbound    == find_nearest_upbound(b, c)
        downbound  == find_nearest_downbound(b, c)
        rightbound == find_nearest_rightbound(b, c)
        leftbound  == find_nearest_leftbound(b, c)
    IN  IF get_left_neighbor(c) \in b.walls
        THEN IF upbound = -1 \/ downbound = -1 THEN FALSE
             ELSE \A m \in (upbound + 1)..(downbound - 1) : Point(m, y - 1) \in b.walls
        ELSE IF get_right_neighbor(c) \in b.walls
        THEN IF upbound = -1 \/ downbound = -1 THEN FALSE
             ELSE \A m \in (upbound + 1)..(downbound - 1) : Point(m, y + 1) \in b.walls
        ELSE IF get_up_neighbor(c) \in b.walls
        THEN IF leftbound = -1 \/ rightbound = -1 THEN FALSE
             ELSE \A m \in (leftbound + 1)..(rightbound - 1) : Point(x - 1, m) \in b.walls
        ELSE IF get_down_neighbor(c) \in b.walls
        THEN IF leftbound = -1 \/ rightbound = -1 THEN FALSE
             ELSE \A m \in (leftbound + 1)..(rightbound - 1) : Point(x + 1, m) \in b.walls
        ELSE FALSE

\* find_deadlock without the storage test
get_deadlock_nostorage(b) ==
    { c \in Cells(b.rows, b.cols) :
        /\ c \notin b.walls
        /\ (corner_test(b, c) \/ boundary_test(b, c)) }

get_deadlock(b) ==
    { c \in Cells(b.rows, b.cols) :
        /\ c \notin b.walls
        /\ c \notin b.storages
        /\ (corner_test(b, c) \/ boundary_test(b, c)) }

-----------------------------------------------------------------------------
(* sokoban.py: the puzzles the loader accepts *)

\* read_input: every coordinate in bounds, no box and no player on a wall
LoaderAccepts(b) ==
    /\ b.rows > 0 /\ b.cols > 0
    /\ b.walls \subseteq Cells(b.rows, b.cols)
    /\ b.boxes \subseteq Cells(b.rows, b.cols)
    /\ b.storages \subseteq Cells(b.rows, b.cols)
    /\ b.player \in Cells(b.rows, b.cols)
    /\ b.player \notin b.walls
    /\ b.boxes \cap b.walls = {}

SubsetsUpTo(S, n) == { T \in SUBSET S : Cardinality(T) <= n }

\* wall layouts the small puzzles are drawn over
Layouts ==
    { [rows |-> 1, cols |-> 4, walls |-> {}],
      [rows |-> 1, cols |-> 4, walls |-> {<<1, 4>>}],
      [rows |-> 2, cols |-> 3, walls |-> {}],
      [rows |-> 2, cols |-> 3, walls |-> {<<1, 2>>}] }

PuzzlesOver(l) ==
    { [rows |-> l.rows, cols |-> l.cols, walls |-> l.walls,
       storages |-> g, boxes |-> bx, player |-> p] :
         g  \in SubsetsUpTo(Cells(l.rows, l.cols), MaxStorages),
         bx \in SubsetsUpTo(Cells(l.rows, l.cols) \ l.walls, MaxBoxes),
         p  \in Cells(l.rows, l.cols) \ l.walls }

\* hand-made puzzles: an open room with one box, a corridor whose box stands
\* on one of two storages, and a two-box level in which depth-first and greedy
\* search return longer sequences than breadth-first
Fixtures ==
    { [rows |-> 3, cols |-> 3, walls |-> {},
       storages |-> {<<1, 1>>}, boxes |-> {<<2, 1>>}, player |-> <<1, 2>>],
      [rows |-> 1, cols |-> 3, walls |-> {},
       storages |-> {<<1, 2>>, <<1, 3>>}, boxes |-> {<<1, 2>>}, player |-> <<1, 1>>],
      [rows |-> 3, cols |-> 5, walls |-> {<<1, 1>>, <<1, 5>>, <<2, 5>>},
       storages |-> {<<3, 3>>, <<3, 4>>}, boxes |-> {<<2, 2>>, <<2, 4>>},
       player |-> <<1, 3>>] }

Puzzles == UNION { PuzzlesOver(l) : l \in Layouts } \cup Fixtures

AsState(k) == [player |-> k.player, boxes |-> k.boxes, move |-> <<>>]

Range(q) == { q[i] : i \in 1..Len(q) }

\* the root State the UI builds from a loaded puzzle (ui.py start_solve)
Root(b) == [player |-> b.player, boxes |-> b.boxes, move |-> <<>>]

NoState == [player |-> <<0, 0>>, boxes |-> {}, move |-> <<>>]

\* State.__init__: the fields get_neighbors reads or writes, the cache None
NewState(s) ==
    [player |-> s.player, boxes |-> s.boxes, move |-> s.move, _neighbors_cache |-> <<>>]

NoFile == [dims |-> <<>>, walls |-> <<>>, boxes |-> <<>>, goals |-> <<>>, player |-> <<>>]

\* no map file is being read
LoadIdle == file = NoFile

\* the solver state of the UI before any start_solve
UiIdle ==
    /\ map_index = 1
    /\ algo_index = "A*"
    /\ solver_done = FALSE
    /\ solver_result = <<>>
    /\ workers = <<>>
    /\ result_by = 0
    /\ moves_by = 0

\* no State object is under call
NbrsIdle ==
    /\ obj = NewState(NoState)
    /\ obj0 = NewState(NoState)
    /\ returned = <<>>
    /\ cached = << >>
    /\ runs = <<>>

-----------------------------------------------------------------------------
(* search.py *)

Algos == {"bfs", "dfs", "ids", "ucs", "greedy", "astar"}

_should_stop(e, cb, ev) == cb # "none" /\ e % CHECK_EVERY = 0 /\ ev

\* the nested function h(s) of greedy_return_path / astar_return_path
h(b, name, s) == IF name = "manhatten" THEN manhatten(b, s) ELSE 0

\* h(s) raises (ValueError from min of an empty sequence)
h_raises(b, name, s) == name = "manhatten" /\ ~manhatten_defined(b, s)

\* mutation of Before: the priority is ignored, the newest entry comes first
Before_newest(e1, e2) == e1[2] > e2[2]

\* mutation of Before: among equal priorities the entry inserted later comes first
Before_lifo(e1, e2) == e1[1] < e2[1] \/ (e1[1] = e2[1] /\ e1[2] > e2[2])

\* heap order of the entries (priority, count, state): priority, then count
Before(e1, e2) == e1[1] < e2[1] \/ (e1[1] = e2[1] /\ e1[2] < e2[2])

\* index of the least of the entries pq[lo], ..., pq[hi]
RECURSIVE LeastIn(_, _, _)
LeastIn(pq, lo, hi) ==
    IF lo = hi THEN lo
    ELSE LET mid == (lo + hi) \div 2
             a   == LeastIn(pq, lo, mid)
             b   == LeastIn(pq, mid + 1, hi)
         IN  IF Before(pq[b], pq[a]) THEN b ELSE a

\* index of the entry heapq.heappop returns: the least (priority, count)
HeapTop(pq) == LeastIn(pq, 1, Len(pq))

RemoveAt(q, i) == SubSeq(q, 1, i - 1) \o SubSeq(q, i + 1, Len(q))

\* mutation of popleft: the deque is popped at its right end
popleft_lifo(q) == [curr |-> q[Len(q)], rest |-> SubSeq(q, 1, Len(q) - 1)]

\* q.popleft()
popleft(q) == [curr |-> Head(q), rest |-> Tail(q)]

\* stack.pop()
pop(q) == [curr |-> q[Len(q)], rest |-> SubSeq(q, 1, Len(q) - 1)]

\* mutation of heappop: the entry pushed last is returned
heappop_last(pq) == [curr |-> pq[Len(pq)][3], rest |-> SubSeq(pq, 1, Len(pq) - 1)]

\* heapq.heappop(pq)
heappop(pq) ==
    LET i == HeapTop(pq)
    IN  [curr |-> pq[i][3], rest |-> RemoveAt(pq, i)]

\* the loop of bfs / dfs that enqueues an unvisited successor without adding it
\* to visited
RECURSIVE VisitLoop_nomark(_, _, _)
VisitLoop_nomark(nbrs, vis, fr) ==
    IF nbrs = <<>> THEN [visited |-> vis, frontier |-> fr]
    ELSE LET e == Head(nbrs)
         IN  IF Key(e) \notin vis
             THEN VisitLoop_nomark(Tail(nbrs), vis, Append(fr, e))
             ELSE VisitLoop_nomark(Tail(nbrs), vis, fr)

\* bfs, dfs: for e in neighbors: if e not in visited: visited.add(e); append(e)
RECURSIVE VisitLoop(_, _, _)
VisitLoop(nbrs, vis, fr) ==
    IF nbrs = <<>> THEN [visited |-> vis, frontier |-> fr]
    ELSE LET e == Head(nbrs)
         IN  IF Key(e) \notin vis
             THEN VisitLoop(Tail(nbrs), vis \cup {Key(e)}, Append(fr, e))
             ELSE VisitLoop(Tail(nbrs), vis, fr)

\* the loop of ids without the test of the history length against the bound
RECURSIVE IdsLoop_nolimit(_, _, _, _)
IdsLoop_nolimit(nbrs, vis, fr, lim) ==
    IF nbrs = <<>> THEN [visited |-> vis, frontier |-> fr]
    ELSE LET e == Head(nbrs)
         IN  IF Key(e) \notin vis
             THEN IdsLoop_nolimit(Tail(nbrs), vis \cup {Key(e)}, Append(fr, e), lim)
             ELSE IdsLoop_nolimit(Tail(nbrs), vis, fr, lim)

\* ids: ... if e not in visited and len(e.get_move()) <= limit
RECURSIVE IdsLoop(_, _, _, _)
IdsLoop(nbrs, vis, fr, lim) ==
    IF nbrs = <<>> THEN [visited |-> vis, frontier |-> fr]
    ELSE LET e == Head(nbrs)
         IN  IF Key(e) \notin vis /\ Len(e.move) <= lim
             THEN IdsLoop(Tail(nbrs), vis \cup {Key(e)}, Append(fr, e), lim)
             ELSE IdsLoop(Tail(nbrs), vis, fr, lim)

\* greedy: if e not in visited: visited.add(e); heappush((h(e), next(counter), e))
RECURSIVE GreedyLoop(_, _, _, _)
GreedyLoop(nbrs, vis, fr, cnt) ==
    IF nbrs = <<>> THEN [visited |-> vis, frontier |-> fr, counter |-> cnt]
    ELSE LET e == Head(nbrs)
         IN  IF Key(e) \notin vis
             THEN GreedyLoop(Tail(nbrs), vis \cup {Key(e)},
                             Append(fr, <<h(board, heuristic, e), cnt, e>>), cnt + 1)
             ELSE GreedyLoop(Tail(nbrs), vis, fr, cnt)

\* best_g[e] = g2
SetG(bg, k, g) == (k :> g) @@ bg

\* the relaxation loop that pushes a successor again when the new path length
\* equals the recorded one
RECURSIVE BestLoop_nonstrict(_, _, _, _, _, _)
BestLoop_nonstrict(nbrs, bg, fr, cnt, g, useH) ==
    IF nbrs = <<>> THEN [best_g |-> bg, frontier |-> fr, counter |-> cnt]
    ELSE LET e  == Head(nbrs)
             g2 == IF useH THEN g + 1 ELSE Len(e.move)
             f  == IF useH THEN g2 + h(board, heuristic, e) ELSE g2
         IN  IF Key(e) \notin DOMAIN bg \/ g2 <= bg[Key(e)]
             THEN BestLoop_nonstrict(Tail(nbrs), SetG(bg, Key(e), g2),
                                     Append(fr, <<f, cnt, e>>), cnt + 1, g, useH)
             ELSE BestLoop_nonstrict(Tail(nbrs), bg, fr, cnt, g, useH)

\* ucs: g2 = len(e.get_move()); astar: g2 = g + 1, priority g2 + h(e)
RECURSIVE BestLoopOn(_, _, _, _, _, _, _, _)
BestLoopOn(b, name, nbrs, bg, fr, cnt, g, useH) ==
    IF nbrs = <<>> THEN [best_g |-> bg, frontier |-> fr, counter |-> cnt]
    ELSE LET e  == Head(nbrs)
             g2 == IF useH THEN g + 1 ELSE Len(e.move)
             f  == IF useH THEN g2 + h(b, name, e) ELSE g2
         IN  IF Key(e) \notin DOMAIN bg \/ g2 < bg[Key(e)]
             THEN BestLoopOn(b, name, Tail(nbrs), SetG(bg, Key(e), g2),
                             Append(fr, <<f, cnt, e>>), cnt + 1, g, useH)
             ELSE BestLoopOn(b, name, Tail(nbrs), bg, fr, cnt, g, useH)

\* the loop as the running strategy executes it, on its board with its heuristic
BestLoop(nbrs, bg, fr, cnt, g, useH) ==
    BestLoopOn(board, heuristic, nbrs, bg, fr, cnt, g, useH)

\* the assignments a strategy makes before its loop
Entry(b, a, name) ==
    LET r == Root(b)
    IN  [ frontier |-> IF a \in {"bfs", "dfs", "ids"} THEN <<r>>
                       ELSE IF a = "greedy"
                       THEN (IF h_raises(b, name, r) THEN <<>> ELSE << <<h(b, name, r), 0, r>> >>)
                       ELSE << <<0, 0, r>> >>,
          visited  |-> IF a \in {"bfs", "dfs", "ids", "greedy"} THEN {Key(r)} ELSE {},
          best_g   |-> IF a \in {"ucs", "astar"} THEN (Key(r) :> 0) ELSE << >>,
          counter  |-> IF a \in {"ucs", "greedy", "astar"} THEN 1 ELSE 0,
          limit    |-> IF a = "ids" THEN IDS_START ELSE 0 ]

\* what pc is when the loop is entered: greedy evaluates h(state) before it
EntryPc(b, a, name) == IF a = "greedy" /\ h_raises(b, name, Root(b)) THEN "raised" ELSE "run"

Return(p, f, st) == pc' = "done" /\ path' = p /\ found' = f /\ stopped' = st

Raise == pc' = "raised" /\ path' = <<>> /\ found' = NoState /\ stopped' = FALSE

\* mutation of ReturnGoal: the popped node is counted as expanded before the
\* goal test
ReturnGoal_counted(curr, rest) ==
    /\ frontier' = rest
    /\ Return(curr.move, curr, FALSE)
    /\ expanded' = expanded + 1
    /\ total' = total + 1
    /\ UNCHANGED <<visited, best_g, counter, limit, polls, since>>

\* curr.reached_goal(): return list(curr.get_move())
ReturnGoal(curr, rest) ==
    /\ frontier' = rest
    /\ Return(curr.move, curr, FALSE)
    /\ UNCHANGED <<visited, best_g, counter, limit, expanded, polls, total, since>>

\* expanded += 1; if self._should_stop(expanded, stop_cb): return []; while-test
Expanded(fr, vis, bg, cnt) ==
    LET e1   == expanded + 1
        poll == stop_cb # "none" /\ e1 % CHECK_EVERY = 0
    IN  /\ total' = total + 1
        /\ since' = IF cancel_event THEN since + 1 ELSE since
        /\ polls' = IF poll THEN polls + 1 ELSE polls
        /\ counter' = cnt
        /\ best_g' = bg
        /\ IF _should_stop(e1, stop_cb, cancel_event)
           THEN /\ Return(<<>>, NoState, TRUE)
                /\ frontier' = fr /\ visited' = vis
                /\ expanded' = e1
                /\ UNCHANGED limit
           ELSE IF fr # <<>>
           THEN /\ frontier' = fr /\ visited' = vis
                /\ expanded' = e1
                /\ UNCHANGED <<pc, path, found, stopped, limit>>
           ELSE IF algo = "ids" /\ limit + depth_step <= max_limit
           THEN \* limit += depth_step; the next pass starts over from the root
                \* with stack = [state], visited = {state}, expanded = 0
                /\ limit' = limit + depth_step
                /\ frontier' = <<Root(board)>>
                /\ visited' = {Key(Root(board))}
                /\ expanded' = 0
                /\ UNCHANGED <<pc, path, found, stopped>>
           ELSE /\ Return(<<>>, NoState, FALSE)
                /\ frontier' = fr /\ visited' = vis
                /\ expanded' = e1
                /\ limit' = IF algo = "ids" THEN limit + depth_step ELSE limit

Running(a) == pc = "run" /\ algo = a

\* mutation of Nbrs: a cached list is found used up by the caller that built it
Nbrs_consumed(s) ==
    IF s.move \in DOMAIN cached THEN <<>> ELSE get_neighbors(board, deadlocks, s)

\* curr.get_neighbors() on the State object with move history s.move:
\* list(self._neighbors_cache) when the cache is set, else the list built now
Nbrs(s) ==
    IF s.move \in DOMAIN cached THEN cached[s.move] ELSE get_neighbors(board, deadlocks, s)

\* the caches after s.get_neighbors(): self._neighbors_cache = res on the
\* first call, no assignment on a later one
Remember(s) ==
    IF s.move \in DOMAIN cached THEN cached
    ELSE (s.move :> get_neighbors(board, deadlocks, s)) @@ cached

bfs_step ==
    /\ Running("bfs")
    /\ LET top  == popleft(frontier)
           curr == top.curr
           rest == top.rest
           r    == VisitLoop(Nbrs(curr), visited, rest)
       IN  IF reached_goal(board, curr) THEN ReturnGoal(curr, rest)
           ELSE Expanded(r.frontier, r.visited, best_g, counter)
    /\ UNCHANGED <<board, deadlocks, algo, heuristic, depth_step, max_limit, stop_cb, cancel_event,
                   uvars, obj, obj0, returned, runs, lvars, gvars, pvars, avars>>

dfs_step ==
    /\ Running("dfs")
    /\ LET top  == pop(frontier)
           curr == top.curr
           rest == top.rest
           r    == VisitLoop(Nbrs(curr), visited, rest)
       IN  IF reached_goal(board, curr) THEN ReturnGoal(curr, rest)
           ELSE Expanded(r.frontier, r.visited, best_g, counter)
    /\ UNCHANGED <<board, deadlocks, algo, heuristic, depth_step, max_limit, stop_cb, cancel_event,
                   uvars, obj, obj0, returned, runs, lvars, gvars, pvars, avars>>

ids_step ==
    /\ Running("ids")
    /\ LET top  == pop(frontier)
           curr == top.curr
           rest == top.rest
           r    == IdsLoop(Nbrs(curr), visited, rest, limit)
       IN  IF reached_goal(board, curr) THEN ReturnGoal(curr, rest)
           ELSE Expanded(r.frontier, r.visited, best_g, counter)
    /\ UNCHANGED <<board, deadlocks, algo, heuristic, depth_step, max_limit, stop_cb, cancel_event,
                   uvars, obj, obj0, returned, runs, lvars, gvars, pvars, avars>>

ucs_step ==
    /\ Running("ucs")
    /\ LET top  == heappop(frontier)
           curr == top.curr
           rest == top.rest
           r    == BestLoop(Nbrs(curr), best_g, rest, counter,
                            Len(curr.move), FALSE)
       IN  IF reached_goal(board, curr) THEN ReturnGoal(curr, rest)
           ELSE Expanded(r.frontier, visited, r.best_g, r.counter)
    /\ UNCHANGED <<board, deadlocks, algo, heuristic, depth_step, max_limit, stop_cb, cancel_event,
                   uvars, obj, obj0, returned, runs, lvars, gvars, pvars, avars>>

greedy_step ==
    /\ Running("greedy")
    /\ LET top  == heappop(frontier)
           curr == top.curr
           rest == top.rest
           nbrs == Nbrs(curr)
           r    == GreedyLoop(nbrs, visited, rest, counter)
       IN  IF reached_goal(board, curr) THEN ReturnGoal(curr, rest)
           ELSE IF \E k \in 1..Len(nbrs) : Key(nbrs[k]) \notin visited
                                           /\ h_raises(board, heuristic, nbrs[k])
           THEN Raise /\ UNCHANGED <<frontier, visited, best_g, counter, limit, expanded,
                                     polls, total, since>>
           ELSE Expanded(r.frontier, r.visited, best_g, r.counter)
    /\ UNCHANGED <<board, deadlocks, algo, heuristic, depth_step, max_limit, stop_cb, cancel_event,
                   uvars, obj, obj0, returned, runs, lvars, gvars, pvars, avars>>

astar_step ==
    /\ Running("astar")
    /\ LET top  == heappop(frontier)
           curr == top.curr
           rest == top.rest
           nbrs == Nbrs(curr)
           r    == BestLoop(nbrs, best_g, rest, counter, Len(curr.move), TRUE)
       IN  IF reached_goal(board, curr) THEN ReturnGoal(curr, rest)
           ELSE IF \E k \in 1..Len(nbrs) :
                      /\ (Key(nbrs[k]) \notin DOMAIN best_g
                            \/ Len(curr.move) + 1 < best_g[Key(nbrs[k])])
                      /\ h_raises(board, heuristic, nbrs[k])
           THEN Raise /\ UNCHANGED <<frontier, visited, best_g, counter, limit, expanded,
                                     polls, total, since>>
           ELSE Expanded(r.frontier, visited, r.best_g, r.counter)
    /\ UNCHANGED <<board, deadlocks, algo, heuristic, depth_step, max_limit, stop_cb, cancel_event,
                   uvars, obj, obj0, returned, runs, lvars, gvars, pvars, avars>>

\* bfs_return_path called on a root State nobody keeps after the call
bfs_return_path == bfs_step /\ UNCHANGED cached

\* dfs_return_path called on a root State nobody keeps after the call
dfs_return_path == dfs_step /\ UNCHANGED cached

\* ids_return_path called on a root State nobody keeps after the call
ids_return_path == ids_step /\ UNCHANGED cached

\* ucs_return_path called on a root State nobody keeps after the call
ucs_return_path == ucs_step /\ UNCHANGED cached

\* greedy_return_path called on a root State nobody keeps after the call
greedy_return_path == greedy_step /\ UNCHANGED cached

\* astar_return_path called on a root State nobody keeps after the call
astar_return_path == astar_step /\ UNCHANGED cached

SearchStep ==
    \/ bfs_return_path
    \/ dfs_return_path
    \/ ids_return_path
    \/ ucs_return_path
    \/ greedy_return_path
    \/ astar_return_path

\* the variables of a strategy as it enters its loop on puzzle b
Call(b, a, name, cb) ==
    LET e == Entry(b, a, name)
    IN  /\ board = b
        /\ deadlocks = get_deadlock(b)
        /\ algo = a
        /\ heuristic = name
        /\ depth_step = DEPTH_STEP
        /\ max_limit = MAX_LIMIT
        /\ stop_cb = cb
        /\ cancel_event = FALSE
        /\ pc = EntryPc(b, a, name)
        /\ frontier = e.frontier
        /\ visited = e.visited
        /\ best_g = e.best_g
        /\ counter = e.counter
        /\ limit = e.limit
        /\ expanded = 0
        /\ path = <<>>
        /\ found = NoState
        /\ polls = 0
        /\ stopped = FALSE
        /\ total = 0
        /\ since = 0

\* how many threads call start() on the one AsyncSolver
NumCallers == 3

Callers == 1..NumCallers

\* AsyncSolver.__init__: no thread, not running, no result, empty queue
AsyncIdle ==
    /\ _running = FALSE
    /\ result = <<>>
    /\ _expanded_snapshot = 0
    /\ progress_q = <<>>
    /\ _th = "none"
    /\ starts = 0
    /\ calls = [t \in Callers |-> "idle"]
    /\ threads = [t \in Callers |-> "none"]
    /\ queued_by = <<>>
    /\ polled = <<>>

-----------------------------------------------------------------------------
(* ui.py: replay of a returned sequence on a mutable Sokoban *)

DIRS(mv) ==
    IF mv \in {"u", "U"} THEN <<-1, 0>>
    ELSE IF mv \in {"d", "D"} THEN <<1, 0>>
    ELSE IF mv \in {"l", "L"} THEN <<0, -1>>
    ELSE IF mv \in {"r", "R"} THEN <<0, 1>>
    ELSE <<0, 0>>

\* Sokoban.load_map indexes map[x - 1][y - 1]; a negative index wraps around
IndexOk(b, e) ==
    /\ -b.rows <= e[1] - 1 /\ e[1] - 1 <= b.rows - 1
    /\ -b.cols <= e[2] - 1 /\ e[2] - 1 <= b.cols - 1

Wrapped(b, e) == Point(((e[1] - 1) % b.rows) + 1, ((e[2] - 1) % b.cols) + 1)

\* Sokoban.load_map raises (IndexError, or ValueError for an object on a wall)
load_map_raises(b, boxes, player) ==
    \E e \in boxes \cup {player} : ~IndexOk(b, e) \/ Wrapped(b, e) \in b.walls

\* mutation of apply_move_to_sokoban: a pushed box is left where it was
apply_move_to_sokoban_nopush(b, s, mv) ==
    LET d  == DIRS(mv)
        a  == Point(s.player[1] + d[1], s.player[2] + d[2])
        b2 == Point(a[1] + d[1], a[2] + d[2])
    IN  IF a \in b.walls THEN [ret |-> "False", sk |-> s]
        ELSE IF a \in s.boxes /\ (b2 \in b.walls \/ b2 \in s.boxes)
        THEN [ret |-> "False", sk |-> s]
        ELSE [ret |-> IF load_map_raises(b, s.boxes, a) THEN "raise" ELSE "True",
              sk  |-> [boxes |-> s.boxes, player |-> a]]

\* apply_move_to_sokoban: the value returned and the Sokoban afterwards
apply_move_to_sokoban(b, s, mv) ==
    LET d  == DIRS(mv)
        a  == Point(s.player[1] + d[1], s.player[2] + d[2])
        b2 == Point(a[1] + d[1], a[2] + d[2])
        nb == IF a \in s.boxes
              THEN { IF e = a THEN b2 ELSE e : e \in s.boxes }
              ELSE s.boxes
    IN  IF a \in b.walls THEN [ret |-> "False", sk |-> s]
        ELSE IF a \in s.boxes /\ (b2 \in b.walls \/ b2 \in s.boxes)
        THEN [ret |-> "False", sk |-> s]
        ELSE [ret |-> IF load_map_raises(b, nb, a) THEN "raise" ELSE "True",
              sk  |-> [boxes |-> nb, player |-> a]]

\* main loop, scene "solving": the worker is done
FinishSolving ==
    /\ scene = "solving"
    /\ pc \in {"done", "raised"}
    /\ IF path # <<>>
       THEN \* apply_solution_and_run: a fresh Sokoban of the same map
            /\ sk' = [boxes |-> board.boxes, player |-> board.player]
            /\ applied' = <<>>
            /\ solved' = FALSE
            /\ scene' = "running"
       ELSE /\ scene' = "menu"
            /\ UNCHANGED <<sk, applied, solved>>
    /\ UNCHANGED <<svars, avars, nvars, lvars, gvars, pvars>>

\* main loop, scene "running": one token of the animation, or the final check
Animate ==
    /\ scene = "running"
    /\ IF Len(applied) < Len(path)
       THEN LET r == apply_move_to_sokoban(board, sk, path[Len(applied) + 1])
            IN  /\ sk' = r.sk
                /\ applied' = Append(applied, r.ret)
                /\ scene' = IF r.ret = "raise" THEN "crashed" ELSE scene
                /\ UNCHANGED solved
       ELSE /\ solved' = (\A bx \in sk.boxes : bx \in board.storages)
            /\ scene' = "finished"
            /\ UNCHANGED <<sk, applied>>
    /\ UNCHANGED <<svars, avars, nvars, lvars, gvars, pvars>>

-----------------------------------------------------------------------------
(* Specification: a strategy called directly, without a stop predicate, on  *)
(* every small puzzle; the returned sequence is then replayed by the UI.    *)

Init ==
    /\ \E b \in Puzzles, a \in Algos : Call(b, a, "manhatten", "none")
    /\ scene = "solving"
    /\ sk = [boxes |-> board.boxes, player |-> board.player]
    /\ applied = <<>>
    /\ solved = FALSE
    /\ AsyncIdle
    /\ NbrsIdle
    /\ LoadIdle
    /\ UiIdle

Next == SearchStep \/ FinishSolving \/ Animate

Spec == Init /\ [][Next]_vars

-----------------------------------------------------------------------------
(* Specification SpecDead: one box is put on a cell get_deadlock() flagged and *)
(* the player then makes any legal steps and pushes (the rules of _try_move    *)
(* with no cell pruned).                                                       *)

\* the variables of the search engine while no strategy runs
Idle ==
    /\ algo = "bfs"
    /\ heuristic = "manhatten"
    /\ depth_step = DEPTH_STEP
    /\ max_limit = MAX_LIMIT
    /\ stop_cb = "none"
    /\ cancel_event = FALSE
    /\ frontier = <<>>
    /\ visited = {}
    /\ best_g = << >>
    /\ counter = 0
    /\ limit = 0
    /\ expanded = 0
    /\ path = <<>>
    /\ found = NoState
    /\ polls = 0
    /\ stopped = FALSE
    /\ total = 0
    /\ since = 0

Grids == { <<2, 3>>, <<3, 2>>, <<3, 3>> }

\* maps without boxes: walls and storages anywhere on the grid
Maps ==
    { [rows |-> g[1], cols |-> g[2], walls |-> w, storages |-> st] :
        g \in Grids, w \in SubsetsUpTo(Cells(3, 3), MaxWalls),
        st \in SubsetsUpTo(Cells(3, 3), MaxStorages) }

ValidMaps ==
    { m \in Maps : m.walls \subseteq Cells(m.rows, m.cols)
                   /\ m.storages \subseteq Cells(m.rows, m.cols) }

InitDead ==
    /\ \E m \in ValidMaps :
         \E c \in get_deadlock(m) :
           \E p \in Cells(m.rows, m.cols) \ (m.walls \cup {c}) :
             /\ board = [rows |-> m.rows, cols |-> m.cols, walls |-> m.walls,
                         storages |-> m.storages, boxes |-> {c}, player |-> p]
             /\ deadlocks = get_deadlock(m)
             /\ sk = [boxes |-> {c}, player |-> p]
    /\ pc = "walk"
    /\ scene = "menu"
    /\ applied = <<>>
    /\ solved = FALSE
    /\ AsyncIdle
    /\ NbrsIdle
    /\ LoadIdle
    /\ UiIdle
    /\ Idle

\* one legal step or push of the player
Walk ==
    /\ pc = "walk"
    /\ \E n \in Range(get_neighbors(board, {}, AsState(sk))) :
         sk' = [boxes |-> n.boxes, player |-> n.player]
    /\ UNCHANGED <<svars, scene, applied, solved, avars, nvars, lvars, gvars, pvars>>

NextDead == Walk

SpecDead == InitDead /\ [][NextDead]_vars

-----------------------------------------------------------------------------
(* Specification SpecStop: a strategy called with stop_cb = cancel_event.is_set *)
(* (as ui.py _worker and the solve function of AsyncSolver do) on a puzzle     *)
(* without solution, while another thread may set the event.                   *)

\* how many polls may have answered False before the event is set
MaxPollsBeforeCancel == 1

\* 4 x 5, two walls, two boxes and a single storage, no solution: bfs, dfs,
\* ucs, greedy and astar each expand more than CHECK_EVERY nodes
StopBoard ==
    [rows |-> 4, cols |-> 5, walls |-> {<<1, 5>>, <<4, 5>>}, storages |-> {<<1, 1>>},
     boxes |-> {<<2, 2>>, <<3, 3>>}, player |-> <<1, 2>>]

\* the same map with two storages: the first pass of ids (limit 50) ends
\* without a goal after fewer than CHECK_EVERY expansions, its second pass
\* expands more than CHECK_EVERY nodes
IdsStopBoard ==
    [rows |-> 4, cols |-> 5, walls |-> {<<1, 5>>, <<4, 5>>},
     storages |-> {<<1, 3>>, <<3, 3>>}, boxes |-> {<<3, 3>>, <<3, 4>>},
     player |-> <<4, 2>>]

\* the calls made: <<puzzle, strategy>>
\* 3 x 3, two boxes and a single storage, no solution: every pass of ids
\* expands 124 nodes
SmallStopBoard ==
    [rows |-> 3, cols |-> 3, walls |-> {}, storages |-> {<<1, 1>>},
     boxes |-> {<<2, 2>>, <<2, 3>>}, player |-> <<1, 2>>]

StopRuns ==
    { <<StopBoard, a>> : a \in Algos \ {"ids"} }
        \cup { <<IdsStopBoard, "ids">>, <<SmallStopBoard, "ids">> }

InitStop ==
    /\ \E r \in StopRuns : Call(r[1], r[2], "manhatten", "is_set")
    /\ scene = "solving"
    /\ sk = [boxes |-> board.boxes, player |-> board.player]
    /\ applied = <<>>
    /\ solved = FALSE
    /\ AsyncIdle
    /\ NbrsIdle
    /\ LoadIdle
    /\ UiIdle

\* cancel_event.set() by another thread, before the first expansion or right
\* after a poll that answered False
SetCancelEvt ==
    /\ pc = "run"
    /\ ~cancel_event
    /\ polls <= MaxPollsBeforeCancel
    /\ total = 0 \/ (expanded > 0 /\ expanded % CHECK_EVERY = 0)
    /\ cancel_event' = TRUE
    /\ UNCHANGED <<board, deadlocks, algo, heuristic, depth_step, max_limit, stop_cb, pc, frontier, visited,
                   best_g, counter, limit, expanded, path, found, polls, stopped,
                   total, since, uvars, nvars, lvars, gvars, pvars, avars>>

NextStop == SearchStep \/ SetCancelEvt

SpecStop == InitStop /\ [][NextStop]_vars

-----------------------------------------------------------------------------
(* Specification SpecAsync: async_solver.py.  One AsyncSolver; a caller      *)
(* starts a solve, the worker thread runs solve_func, which dispatches to    *)
(* the named strategy with stop_cb = cancel_event.is_set and may report      *)
(* progress; another thread may call cancel() and poll_progress() at any     *)
(* time.  An Optional value is a sequence of length 0 (None) or 1.           *)

\* how many solves may be started on the AsyncSolver
MaxStarts == 1

\* how many unread updates progress_q may hold before progress_cb is held back
MaxQueue == 2

\* solve_func reports progress during its first MaxReported expansions only
MaxReported == 2

\* elapsed times are not modelled: every elapsed value is this one
Elapsed == 0

\* the puzzle before any is loaded
NoBoard ==
    [rows |-> 1, cols |-> 1, walls |-> {}, storages |-> {}, boxes |-> {},
     player |-> <<1, 1>>]

\* 2 x 3, one push to the storage
AsyncSolvable ==
    [rows |-> 2, cols |-> 3, walls |-> {}, storages |-> {<<1, 3>>},
     boxes |-> {<<1, 2>>}, player |-> <<1, 1>>]

\* 1 x 3, the only box already on the only storage
AsyncAtGoal ==
    [rows |-> 1, cols |-> 3, walls |-> {}, storages |-> {<<1, 2>>},
     boxes |-> {<<1, 2>>}, player |-> <<1, 1>>]

\* 1 x 2, the box in a corner that is no storage: no solution, no successor
AsyncUnsolvable ==
    [rows |-> 1, cols |-> 2, walls |-> {}, storages |-> {<<1, 1>>},
     boxes |-> {<<1, 2>>}, player |-> <<1, 1>>]

\* 1 x 3, a box and no storage: manhatten raises ValueError
AsyncRaising ==
    [rows |-> 1, cols |-> 3, walls |-> {}, storages |-> {},
     boxes |-> {<<1, 2>>}, player |-> <<1, 1>>]

AsyncFixtures == {AsyncSolvable, AsyncAtGoal, AsyncUnsolvable, AsyncRaising}

InitAsync ==
    /\ board = NoBoard
    /\ deadlocks = {}
    /\ pc = "idle"
    /\ Idle
    /\ scene = "menu"
    /\ sk = [boxes |-> {}, player |-> <<1, 1>>]
    /\ applied = <<>>
    /\ solved = FALSE
    /\ AsyncIdle
    /\ NbrsIdle
    /\ LoadIdle
    /\ UiIdle

\* solve_func(state, algo, heuristic, cancel_event, progress_cb) enters the
\* strategy named algo with stop_cb = cancel_event.is_set
solve_func(b, a, name) ==
    LET e == Entry(b, a, name)
    IN  /\ board' = b
        /\ deadlocks' = get_deadlock(b)
        /\ algo' = a
        /\ heuristic' = name
        /\ UNCHANGED <<depth_step, max_limit>>
        /\ stop_cb' = "is_set"
        /\ pc' = EntryPc(b, a, name)
        /\ frontier' = e.frontier
        /\ visited' = e.visited
        /\ best_g' = e.best_g
        /\ counter' = e.counter
        /\ limit' = e.limit
        /\ expanded' = 0
        /\ path' = <<>>
        /\ found' = NoState
        /\ polls' = 0
        /\ stopped' = FALSE
        /\ total' = 0
        /\ since' = 0

\* AsyncSolver.start: refused (False) while a solve is running; else the flag
\* and the result are reset and the worker thread is launched
start_on(B, A, n) ==
    IF _running
    THEN UNCHANGED vars
    ELSE /\ starts < n
         /\ \E b \in B, a \in A : solve_func(b, a, "manhatten")
         /\ cancel_event' = FALSE
         /\ result' = <<>>
         /\ _expanded_snapshot' = 0
         /\ _running' = TRUE
         /\ _th' = "solve"
         /\ starts' = starts + 1
         /\ UNCHANGED <<progress_q, uvars, nvars, lvars, gvars, pvars, calls, threads>>

\* a caller starts a solve of any of the fixtures with any strategy
start == start_on(AsyncFixtures, Algos, MaxStarts)

\* progress_cb(expanded, elapsed), called by solve_func while it runs
progress_cb ==
    /\ _th = "solve"
    /\ pc = "run"
    /\ Len(progress_q) < MaxQueue
    /\ total <= MaxReported
    /\ _expanded_snapshot' = total
    /\ progress_q' = Append(progress_q, <<total, Elapsed>>)
    /\ queued_by' = Append(queued_by, starts)
    /\ UNCHANGED <<svars, uvars, nvars, lvars, gvars, polled, _running, result, _th, starts, calls, threads>>

\* mutation of worker: an exception of solve_func is not caught, no result is
\* assigned for it
worker_noexcept ==
    /\ _th = "solve"
    /\ pc \in {"done", "raised"}
    /\ LET ok == path # <<>>
       IN  result' =
             IF pc = "raised" THEN result
             ELSE << [ok |-> ok, path |-> IF ok THEN <<path>> ELSE <<>>,
                      expanded |-> _expanded_snapshot, elapsed |-> Elapsed,
                      reason |-> IF ok THEN ""
                                 ELSE IF cancel_event THEN "canceled"
                                 ELSE "no-solution"] >>
    /\ _th' = "finally"
    /\ UNCHANGED <<svars, uvars, nvars, lvars, gvars, pvars, _running, _expanded_snapshot, progress_q, starts,
                   calls, threads>>

\* worker: solve_func returned path, or raised
worker ==
    /\ _th = "solve"
    /\ pc \in {"done", "raised"}
    /\ LET ok == path # <<>>
       IN  result' =
             IF pc = "raised"
             THEN << [ok |-> FALSE, path |-> <<>>, expanded |-> _expanded_snapshot,
                      elapsed |-> Elapsed, reason |-> "error"] >>
             ELSE << [ok |-> ok, path |-> IF ok THEN <<path>> ELSE <<>>,
                      expanded |-> _expanded_snapshot, elapsed |-> Elapsed,
                      reason |-> IF ok THEN ""
                                 ELSE IF cancel_event THEN "canceled"
                                 ELSE "no-solution"] >>
    /\ _th' = "finally"
    /\ UNCHANGED <<svars, uvars, nvars, lvars, gvars, pvars, _running, _expanded_snapshot, progress_q, starts,
                   calls, threads>>

\* worker, finally: with self._lock: self._running = False
worker_finally ==
    /\ _th = "finally"
    /\ _running' = FALSE
    /\ _th' = "exit"
    /\ UNCHANGED <<svars, uvars, nvars, lvars, gvars, pvars, result, _expanded_snapshot, progress_q, starts,
                   calls, threads>>

\* AsyncSolver.cancel
cancel ==
    /\ cancel_event' = TRUE
    /\ UNCHANGED <<board, deadlocks, algo, heuristic, depth_step, max_limit, stop_cb, pc, frontier, visited,
                   best_g, counter, limit, expanded, path, found, polls, stopped,
                   total, since, uvars, nvars, lvars, gvars, pvars, avars>>

\* AsyncSolver.poll_progress: the oldest unread update, or None
poll_progress ==
    /\ progress_q' = IF progress_q = <<>> THEN progress_q ELSE Tail(progress_q)
    /\ queued_by' = IF progress_q = <<>> THEN queued_by ELSE Tail(queued_by)
    /\ polled' = IF progress_q = <<>> THEN <<>>
                 ELSE << [by |-> Head(queued_by), at |-> starts] >>
    /\ UNCHANGED <<svars, uvars, nvars, lvars, gvars, _running, result, _expanded_snapshot, _th, starts,
                   calls, threads>>

NextAsync ==
    \/ start
    \/ SearchStep
    \/ progress_cb
    \/ worker
    \/ worker_finally
    \/ cancel
    \/ poll_progress

SpecAsync == InitAsync /\ [][NextAsync]_vars

-----------------------------------------------------------------------------
(* Specification SpecStart: async_solver.py, start() called once by each of    *)
(* several threads on one AsyncSolver.  Every statement of start() is a step   *)
(* of its caller, so the calls interleave with one another and with the        *)
(* workers.  What solve_func does is reduced to how it ends.                   *)

\* how a solve_func call ends: a move sequence, the empty sequence, an exception
Outcomes == {"path", "empty", "raise"}

\* the move sequence solve_func returns when it ends as o
OutcomePath(o) == IF o = "path" THEN <<"r">> ELSE <<>>

\* start: if self.is_running(): return False
start_is_running(t) ==
    /\ calls[t] = "idle"
    /\ calls' = [calls EXCEPT ![t] = IF _running THEN "False" ELSE "clear"]
    /\ UNCHANGED <<svars, uvars, nvars, lvars, gvars, pvars, _running, result, _expanded_snapshot, progress_q, _th,
                   starts, threads>>

\* start: self.cancel_event.clear()
start_clear(t) ==
    /\ calls[t] = "clear"
    /\ cancel_event' = FALSE
    /\ calls' = [calls EXCEPT ![t] = "result"]
    /\ UNCHANGED <<board, deadlocks, algo, heuristic, depth_step, max_limit, stop_cb, pc, frontier, visited,
                   best_g, counter, limit, expanded, path, found, polls, stopped,
                   total, since, uvars, nvars, lvars, gvars, pvars, _running, result, _expanded_snapshot,
                   progress_q, _th, starts, threads>>

\* start: self.result = None
start_result(t) ==
    /\ calls[t] = "result"
    /\ result' = <<>>
    /\ calls' = [calls EXCEPT ![t] = "snapshot"]
    /\ UNCHANGED <<svars, uvars, nvars, lvars, gvars, pvars, _running, _expanded_snapshot, progress_q, _th, starts,
                   threads>>

\* start: self._expanded_snapshot = 0
start_snapshot(t) ==
    /\ calls[t] = "snapshot"
    /\ _expanded_snapshot' = 0
    /\ calls' = [calls EXCEPT ![t] = "flag"]
    /\ UNCHANGED <<svars, uvars, nvars, lvars, gvars, pvars, _running, result, progress_q, _th, starts, threads>>

\* start: with self._lock: self._running = True
start_running(t) ==
    /\ calls[t] = "flag"
    /\ _running' = TRUE
    /\ calls' = [calls EXCEPT ![t] = "thread"]
    /\ UNCHANGED <<svars, uvars, nvars, lvars, gvars, pvars, result, _expanded_snapshot, progress_q, _th, starts,
                   threads>>

\* start: self._th = threading.Thread(target=worker); self._th.start(); return True
start_thread(t) ==
    /\ calls[t] = "thread"
    /\ threads' = [threads EXCEPT ![t] = "solve"]
    /\ _th' = "solve"
    /\ starts' = starts + 1
    /\ calls' = [calls EXCEPT ![t] = "True"]
    /\ UNCHANGED <<svars, uvars, nvars, lvars, gvars, pvars, _running, result, _expanded_snapshot, progress_q>>

\* worker of the thread t launched: solve_func ends, self.result is assigned
thread_worker(t) ==
    /\ threads[t] = "solve"
    /\ \E o \in Outcomes :
         LET p  == OutcomePath(o)
             ok == p # <<>>
         IN  result' =
               IF o = "raise"
               THEN << [ok |-> FALSE, path |-> <<>>, expanded |-> _expanded_snapshot,
                        elapsed |-> Elapsed, reason |-> "error"] >>
               ELSE << [ok |-> ok, path |-> IF ok THEN <<p>> ELSE <<>>,
                        expanded |-> _expanded_snapshot, elapsed |-> Elapsed,
                        reason |-> IF ok THEN ""
                                   ELSE IF cancel_event THEN "canceled"
                                   ELSE "no-solution"] >>
    /\ threads' = [threads EXCEPT ![t] = "finally"]
    /\ UNCHANGED <<svars, uvars, nvars, lvars, gvars, pvars, _running, _expanded_snapshot, progress_q, _th, starts,
                   calls>>

\* worker of the thread t launched, finally: self._running = False
thread_finally(t) ==
    /\ threads[t] = "finally"
    /\ _running' = FALSE
    /\ threads' = [threads EXCEPT ![t] = "exit"]
    /\ UNCHANGED <<svars, uvars, nvars, lvars, gvars, pvars, result, _expanded_snapshot, progress_q, _th, starts,
                   calls>>

NextStart ==
    \/ \E t \in Callers : start_is_running(t)
    \/ \E t \in Callers : start_clear(t)
    \/ \E t \in Callers : start_result(t)
    \/ \E t \in Callers : start_snapshot(t)
    \/ \E t \in Callers : start_running(t)
    \/ \E t \in Callers : start_thread(t)
    \/ \E t \in Callers : thread_worker(t)
    \/ \E t \in Callers : thread_finally(t)
    \/ cancel

SpecStart == InitAsync /\ [][NextStart]_vars

-----------------------------------------------------------------------------
(* Reference notions the claims are stated against *)

\* configurations one get_neighbors step away from configuration k
Successors(b, dl, k) == { Key(n) : n \in Range(get_neighbors(b, dl, AsState(k))) }

IsGoal(b, k) == \A bx \in k.boxes : bx \in b.storages

\* length of the shortest successor path from the front layer to a goal, -1 if none
RECURSIVE Layers(_, _, _, _, _)
Layers(b, dl, seen, front, d) ==
    IF \E k \in front : IsGoal(b, k) THEN d
    ELSE IF front = {} THEN -1
    ELSE LET next == (UNION { Successors(b, dl, k) : k \in front }) \ seen
         IN  Layers(b, dl, seen \cup next, next, d + 1)

ShortestLen(b) == Layers(b, get_deadlock(b), {Key(Root(b))}, {Key(Root(b))}, 0)

\* closure of a set of configurations under steps that push no box
RECURSIVE WalkClosure(_, _, _)
WalkClosure(b, dl, S) ==
    LET more == { n \in UNION { Successors(b, dl, k) : k \in S } : \E k \in S : n.boxes = k.boxes }
    IN  IF more \subseteq S THEN S ELSE WalkClosure(b, dl, S \cup more)

\* least number of pushes on any successor path to a goal, -1 if none
RECURSIVE PushLayers(_, _, _, _, _)
PushLayers(b, dl, seen, front, d) ==
    IF \E k \in front : IsGoal(b, k) THEN d
    ELSE IF front = {} THEN -1
    ELSE LET next == WalkClosure(b, dl, (UNION { Successors(b, dl, k) : k \in front }) \ seen) \ seen
         IN  PushLayers(b, dl, seen \cup next, next, d + 1)

MinPushes(b) ==
    LET c == WalkClosure(b, get_deadlock(b), {Key(Root(b))})
    IN  PushLayers(b, get_deadlock(b), c, c, 0)

\* the State the next step of the running strategy pops
Cur == IF algo = "bfs" THEN popleft(frontier).curr
       ELSE IF algo \in {"dfs", "ids"} THEN pop(frontier).curr
       ELSE heappop(frontier).curr

Dirs == {"u", "d", "l", "r"}

\* the neighbour of cell c at distance n in direction m
Toward(c, m, n) == Point(c[1] + n * DIRS(m)[1], c[2] + n * DIRS(m)[2])

-----------------------------------------------------------------------------
(* state.py: get_neighbors called on a State object that carries its cache *)

MaxCalls == 3
MaxDepth == 3

NbrBoards == Puzzles \cup {StopBoard, SmallStopBoard}

\* mutation of State_init: the deadlock set is not stored
State_init_nodl(walls, boxes, storages, player, move, rows, cols, dl) ==
    [walls |-> walls, boxes |-> boxes, storages |-> storages, player |-> player,
     move |-> move, rows |-> rows, cols |-> cols, deadlocks |-> {},
     _neighbors_cache |-> <<>>]

\* State.__init__: every collection copied into a set of the new object, the
\* cache None
State_init(walls, boxes, storages, player, move, rows, cols, dl) ==
    [walls |-> walls, boxes |-> boxes, storages |-> storages, player |-> player,
     move |-> move, rows |-> rows, cols |-> cols, deadlocks |-> dl,
     _neighbors_cache |-> <<>>]

\* root = State(sk.get_walls(), sk.get_boxes(), sk.get_storages(),
\*              sk.get_player(), "", sk.get_height(), sk.get_width(), False, deadlocks)
RootObject(b, dl) ==
    State_init(b.walls, b.boxes, b.storages, b.player, <<>>, b.rows, b.cols, dl)

\* the State object _try_move constructs for the successor n of self: walls,
\* storages, rows, cols and deadlocks are the arguments self.walls, ...
SuccessorObject(self, n) ==
    State_init(self.walls, n.boxes, self.storages, n.player, n.move,
               self.rows, self.cols, self.deadlocks)

\* what the methods of a State object read of the map: self.rows, self.cols,
\* self.walls, self.storages
MapOf(self) ==
    [rows |-> self.rows, cols |-> self.cols, walls |-> self.walls,
     storages |-> self.storages]

InitNbrs ==
    /\ \E b \in NbrBoards :
         /\ board = b
         /\ deadlocks = get_deadlock(b)
         /\ obj = RootObject(b, get_deadlock(b))
         /\ obj0 = RootObject(b, get_deadlock(b))
         /\ sk = [boxes |-> b.boxes, player |-> b.player]
    /\ returned = <<>>
    /\ cached = << >>
    /\ runs = <<>>
    /\ LoadIdle
    /\ UiIdle
    /\ pc = "nbrs"
    /\ scene = "menu"
    /\ applied = <<>>
    /\ solved = FALSE
    /\ AsyncIdle
    /\ Idle

\* self after a push that moves the box inside self.boxes instead of a copy
_try_move_self_inplace(b, dl, s, ax, ay, bx, by, m) ==
    LET out == _try_move(b, dl, s, ax, ay, bx, by, m)
    IN  IF out = <<>> THEN s ELSE [s EXCEPT !.boxes = out[1].boxes]

\* self after _try_move: a step passes self.boxes to the constructor, which
\* copies it; a push works on new_boxes = set(self.boxes); self is not assigned
_try_move_self(b, dl, s, ax, ay, bx, by, m) == s

\* one call obj.get_neighbors(): the cached list copied, or the four _try_move
\* calls appending to res, which becomes the cache and the returned list
call_get_neighbors ==
    /\ pc = "nbrs"
    /\ Len(returned) < MaxCalls
    /\ IF obj._neighbors_cache # <<>>
       THEN /\ returned' = Append(returned, obj._neighbors_cache[1])
            /\ UNCHANGED obj
       ELSE LET x  == obj.player[1]
                y  == obj.player[2]
                o1 == _try_move(MapOf(obj), obj.deadlocks, obj, x - 1, y, x - 2, y, "u")
                s1 == _try_move_self(MapOf(obj), obj.deadlocks, obj, x - 1, y, x - 2, y, "u")
                o2 == _try_move(MapOf(obj), obj.deadlocks, s1, x + 1, y, x + 2, y, "d")
                s2 == _try_move_self(MapOf(obj), obj.deadlocks, s1, x + 1, y, x + 2, y, "d")
                o3 == _try_move(MapOf(obj), obj.deadlocks, s2, x, y - 1, x, y - 2, "l")
                s3 == _try_move_self(MapOf(obj), obj.deadlocks, s2, x, y - 1, x, y - 2, "l")
                o4 == _try_move(MapOf(obj), obj.deadlocks, s3, x, y + 1, x, y + 2, "r")
                s4 == _try_move_self(MapOf(obj), obj.deadlocks, s3, x, y + 1, x, y + 2, "r")
                res == o1 \o o2 \o o3 \o o4
            IN  /\ obj' = [s4 EXCEPT !._neighbors_cache = <<res>>]
                /\ returned' = Append(returned, res)
    /\ UNCHANGED <<svars, uvars, avars, obj0, cached, runs, lvars, gvars, pvars>>

\* the caller goes on with one of the listed successors, a State object on
\* which get_neighbors was not called yet
expand ==
    /\ pc = "nbrs"
    /\ returned # <<>>
    /\ Len(obj.move) < MaxDepth
    /\ \E i \in 1..Len(returned[Len(returned)]) :
         /\ obj' = SuccessorObject(obj, returned[Len(returned)][i])
         /\ obj0' = SuccessorObject(obj, returned[Len(returned)][i])
    /\ returned' = <<>>
    /\ UNCHANGED <<svars, uvars, avars, cached, runs, lvars, gvars, pvars>>

NextNbrs == call_get_neighbors \/ expand

SpecNbrs == InitNbrs /\ [][NextNbrs]_vars

-----------------------------------------------------------------------------
(* Specification SpecHeur: greedy_return_path and astar_return_path called   *)
(* with each heuristic name a caller may pass: the name the code compares    *)
(* with, "manhatten", and the name "manhattan".                              *)

HeuristicNames == {"manhatten", "manhattan"}

InitHeur ==
    /\ \E b \in Puzzles, a \in {"greedy", "astar"}, name \in HeuristicNames :
         Call(b, a, name, "none")
    /\ scene = "solving"
    /\ sk = [boxes |-> board.boxes, player |-> board.player]
    /\ applied = <<>>
    /\ solved = FALSE
    /\ AsyncIdle
    /\ NbrsIdle
    /\ LoadIdle
    /\ UiIdle

NextHeur == greedy_return_path \/ astar_return_path

SpecHeur == InitHeur /\ [][NextHeur]_vars

-----------------------------------------------------------------------------
(* Specification SpecLoad: Sokoban(filename) reads a map file of five number *)
(* lines (after int() of every token) and start_solve builds the root State  *)
(* from the puzzle it got.                                                   *)

MaxPairs == 1
MaxCoord == 2

CoordPairs == { <<r, c>> : r \in 0..MaxCoord, c \in 0..MaxCoord }

RECURSIVE PairSeqs(_)
PairSeqs(n) ==
    IF n = 0 THEN { <<>> }
    ELSE PairSeqs(n - 1)
         \cup { s \o q : s \in { t \in PairSeqs(n - 1) : Len(t) = 2 * (n - 1) }, q \in CoordPairs }

\* "count r1 c1 r2 c2 ...": the lines whose count matches, an empty line, a
\* negative count, and counts that do not match the pairs that follow
PairLines ==
    { <<Len(s) \div 2>> \o s : s \in PairSeqs(MaxPairs) }
    \cup { <<>>, <<-1>>, <<1>>, <<0, 1, 1>> }

DimLines == { <<0, 2>>, <<1, 2>>, <<2, 1>>, <<2, 2>> }

Files ==
    { [dims |-> d, walls |-> w, boxes |-> bx, goals |-> g, player |-> p] :
        d \in DimLines, w \in PairLines, bx \in PairLines, g \in PairLines,
        p \in CoordPairs }

InitLoad ==
    /\ file \in Files
    /\ board = NoBoard
    /\ deadlocks = {}
    /\ pc = "load"
    /\ Idle
    /\ scene = "menu"
    /\ sk = [boxes |-> {}, player |-> <<1, 1>>]
    /\ applied = <<>>
    /\ solved = FALSE
    /\ AsyncIdle
    /\ NbrsIdle
    /\ UiIdle

\* the pairs (r, c) of the tokens coords[i], coords[i + 1], i = 1, 3, ...
PairsAt(coords) == { <<coords[2 * k - 1], coords[2 * k]>> : k \in 1..(Len(coords) \div 2) }

\* _parse_and_load_pairs without the test that a coordinate is on the board
_parse_and_load_pairs_nobounds(line, rows, cols) ==
    IF line = <<>> THEN [raised |-> TRUE, set |-> {}]
    ELSE LET count  == Head(line)
             coords == Tail(line)
         IN  IF count < 0 THEN [raised |-> TRUE, set |-> {}]
             ELSE IF Len(coords) # count * 2 THEN [raised |-> TRUE, set |-> {}]
             ELSE [raised |-> FALSE, set |-> PairsAt(coords)]

\* _parse_and_load_pairs: the points of a line added to the target set, or an error
_parse_and_load_pairs(line, rows, cols) ==
    IF line = <<>> THEN [raised |-> TRUE, set |-> {}]
    ELSE LET count  == Head(line)
             coords == Tail(line)
         IN  IF count < 0 THEN [raised |-> TRUE, set |-> {}]
             ELSE IF Len(coords) # count * 2 THEN [raised |-> TRUE, set |-> {}]
             ELSE IF \E q \in PairsAt(coords) :
                       ~(1 <= q[1] /\ q[1] <= rows /\ 1 <= q[2] /\ q[2] <= cols)
             THEN [raised |-> TRUE, set |-> {}]
             ELSE [raised |-> FALSE, set |-> PairsAt(coords)]

\* read_input: the Sokoban fields it has set when it returns, or an error
read_input(f) ==
    LET rows == f.dims[1]
        cols == f.dims[2]
        w    == _parse_and_load_pairs(f.walls, rows, cols)
        bx   == _parse_and_load_pairs(f.boxes, rows, cols)
        g    == _parse_and_load_pairs(f.goals, rows, cols)
        pr   == f.player[1]
        pcol == f.player[2]
        err  == [raised |-> TRUE, sokoban |-> NoBoard]
    IN  IF Len(f.dims) # 2 THEN err
        ELSE IF rows <= 0 \/ cols <= 0 THEN err
        ELSE IF w.raised \/ bx.raised \/ g.raised THEN err
        ELSE IF Len(f.player) # 2 THEN err
        ELSE IF ~(1 <= pr /\ pr <= rows /\ 1 <= pcol /\ pcol <= cols) THEN err
        ELSE IF Point(pr, pcol) \in w.set THEN err
        ELSE IF \E e \in bx.set : e \in w.set THEN err
        ELSE [raised  |-> FALSE,
              sokoban |-> [rows |-> rows, cols |-> cols, walls |-> w.set,
                           storages |-> g.set, boxes |-> bx.set,
                           player |-> Point(pr, pcol)]]

\* Sokoban.__init__: read_input, then load_map
Sokoban_init ==
    /\ pc = "load"
    /\ LET r == read_input(file)
       IN  IF r.raised
           THEN pc' = "raised" /\ UNCHANGED board
           ELSE IF load_map_raises(r.sokoban, r.sokoban.boxes, r.sokoban.player)
           THEN pc' = "raised" /\ UNCHANGED board
           ELSE pc' = "loaded" /\ board' = r.sokoban
    /\ UNCHANGED <<deadlocks, algo, heuristic, depth_step, max_limit, stop_cb, cancel_event, frontier, visited,
                   best_g, counter, limit, expanded, path, found, polls, stopped, total,
                   since, uvars, avars, nvars, lvars, gvars, pvars>>

\* start_solve after Sokoban(...) returned: the detector runs and the root
\* State is built from the getters of the puzzle
start_solve_root ==
    /\ pc = "loaded"
    /\ pc' = "built"
    /\ deadlocks' = get_deadlock(board)
    /\ obj' = NewState(Root(board))
    /\ obj0' = NewState(Root(board))
    /\ UNCHANGED <<board, algo, heuristic, depth_step, max_limit, stop_cb, cancel_event, frontier, visited,
                   best_g, counter, limit, expanded, path, found, polls, stopped, total,
                   since, uvars, avars, returned, cached, runs, lvars, gvars, pvars>>

NextLoad == Sokoban_init \/ start_solve_root

SpecLoad == InitLoad /\ [][NextLoad]_vars

-----------------------------------------------------------------------------
(* Specification SpecIds: ids_return_path called without a stop predicate,   *)
(* with its parameters depth_step and max_limit given by the caller.         *)

\* a room of 5 x 4 cells with one wall, whose box is nine moves from its storage
IdsRoom ==
    [rows |-> 5, cols |-> 4, walls |-> {<<5, 4>>},
     storages |-> {<<5, 2>>}, boxes |-> {<<3, 3>>}, player |-> <<3, 2>>]

IdsBoards == {IdsRoom, AsyncSolvable, AsyncUnsolvable}

\* <<depth_step, max_limit>>
IdsParams == { <<10, 50>>, <<1, 51>>, <<10, 60>> }

InitIds ==
    /\ \E b \in IdsBoards, prm \in IdsParams :
         LET e == Entry(b, "ids", "manhatten")
         IN  /\ board = b
             /\ deadlocks = get_deadlock(b)
             /\ depth_step = prm[1]
             /\ max_limit = prm[2]
             /\ frontier = e.frontier
             /\ visited = e.visited
             /\ best_g = e.best_g
             /\ counter = e.counter
             /\ limit = e.limit
             /\ sk = [boxes |-> b.boxes, player |-> b.player]
    /\ algo = "ids"
    /\ heuristic = "manhatten"
    /\ stop_cb = "none"
    /\ cancel_event = FALSE
    /\ pc = "run"
    /\ expanded = 0
    /\ path = <<>>
    /\ found = NoState
    /\ polls = 0
    /\ stopped = FALSE
    /\ total = 0
    /\ since = 0
    /\ scene = "solving"
    /\ applied = <<>>
    /\ solved = FALSE
    /\ AsyncIdle
    /\ NbrsIdle
    /\ LoadIdle
    /\ UiIdle

NextIds == ids_return_path

SpecIds == InitIds /\ [][NextIds]_vars

-----------------------------------------------------------------------------
(* Specification SpecFair: the direct calls of Spec, where a strategy that   *)
(* is inside its loop keeps running (the thread that called it is scheduled) *)

SpecFair == Spec /\ WF_vars(SearchStep)

-----------------------------------------------------------------------------
(* Specification SpecShared: several searches, one after the other, on the   *)
(* same root State object, whose successors keep the lists they cached.      *)

MaxRuns == 3

SharedBoards == Puzzles

InitShared ==
    /\ \E b \in SharedBoards, a \in Algos : Call(b, a, "manhatten", "none")
    /\ scene = "solving"
    /\ sk = [boxes |-> board.boxes, player |-> board.player]
    /\ applied = <<>>
    /\ solved = FALSE
    /\ AsyncIdle
    /\ NbrsIdle
    /\ LoadIdle
    /\ UiIdle

\* the caches after a step of a strategy: get_neighbors is called on the
\* popped state unless that state is a goal
KeepCaches == cached' = IF reached_goal(board, Cur) THEN cached ELSE Remember(Cur)

bfs_kept == bfs_step /\ KeepCaches

dfs_kept == dfs_step /\ KeepCaches

ids_kept == ids_step /\ KeepCaches

ucs_kept == ucs_step /\ KeepCaches

greedy_kept == greedy_step /\ KeepCaches

astar_kept == astar_step /\ KeepCaches

\* the caller notes what the finished search returned and calls a strategy on
\* the same root object again: the first strategy once more, or before that
\* any other strategy
call_again ==
    /\ pc \in {"done", "raised"}
    /\ Len(runs) < MaxRuns - 1
    /\ runs' = Append(runs, [algo |-> algo, pc |-> pc, path |-> path, total |-> total])
    /\ \E a \in (IF runs = <<>> THEN Algos ELSE {runs[1].algo}) :
         LET e == Entry(board, a, heuristic)
         IN  /\ algo' = a
             /\ pc' = EntryPc(board, a, heuristic)
             /\ frontier' = e.frontier
             /\ visited' = e.visited
             /\ best_g' = e.best_g
             /\ counter' = e.counter
             /\ limit' = e.limit
    /\ expanded' = 0
    /\ path' = <<>>
    /\ found' = NoState
    /\ polls' = 0
    /\ stopped' = FALSE
    /\ total' = 0
    /\ since' = 0
    /\ UNCHANGED <<board, deadlocks, heuristic, depth_step, max_limit, stop_cb, cancel_event,
                   uvars, avars, obj, obj0, returned, cached, lvars, gvars, pvars>>

NextShared ==
    \/ bfs_kept \/ dfs_kept \/ ids_kept \/ ucs_kept \/ greedy_kept \/ astar_kept
    \/ call_again

SpecShared == InitShared /\ [][NextShared]_vars

-----------------------------------------------------------------------------
(* Specification SpecUi: the main loop of the UI and the _worker threads     *)
(* start_solve launches. The UI thread takes one step at a time (the check   *)
(* at the top of the loop, one event, one token of the animation); a worker  *)
(* runs from one call of stop_cb to the next, or to the end of its search.   *)

MaxSolves == 2

\* 3 x 3, one box to push up onto the storage
UiRoom ==
    [rows |-> 3, cols |-> 3, walls |-> {}, storages |-> {<<1, 1>>},
     boxes |-> {<<2, 1>>}, player |-> <<1, 2>>]

\* the maps of the map directory, in the order of the list maps
UiMaps == <<UiRoom, AsyncSolvable, AsyncUnsolvable>>

\* bfs_return_path(root) run to its return: the returned list and the value
\* of expanded at the return
RECURSIVE BfsRun(_, _, _, _, _)
BfsRun(b, dl, fr, vis, n) ==
    IF fr = <<>> THEN [raised |-> FALSE, path |-> <<>>, expanded |-> n]
    ELSE LET top  == popleft(fr)
             curr == top.curr
         IN  IF reached_goal(b, curr)
             THEN [raised |-> FALSE, path |-> curr.move, expanded |-> n]
             ELSE LET r == VisitLoop(get_neighbors(b, dl, curr), vis, top.rest)
                  IN  BfsRun(b, dl, r.frontier, r.visited, n + 1)

\* astar_return_path(root, "manhatten") run to its return or to the ValueError
\* of the heuristic
RECURSIVE AstarRun(_, _, _, _, _, _)
AstarRun(b, dl, fr, bg, cnt, n) ==
    IF fr = <<>> THEN [raised |-> FALSE, path |-> <<>>, expanded |-> n]
    ELSE LET top  == heappop(fr)
             curr == top.curr
             nbrs == get_neighbors(b, dl, curr)
         IN  IF reached_goal(b, curr)
             THEN [raised |-> FALSE, path |-> curr.move, expanded |-> n]
             ELSE IF \E k \in 1..Len(nbrs) :
                        /\ (Key(nbrs[k]) \notin DOMAIN bg
                              \/ Len(curr.move) + 1 < bg[Key(nbrs[k])])
                        /\ h_raises(b, "manhatten", nbrs[k])
             THEN [raised |-> TRUE, path |-> <<>>, expanded |-> n]
             ELSE LET r == BestLoopOn(b, "manhatten", nbrs, bg, top.rest, cnt,
                                      Len(curr.move), TRUE)
                  IN  AstarRun(b, dl, r.frontier, r.best_g, r.counter, n + 1)

\* the search a worker runs on map b, left alone
SearchRun(b, a) ==
    IF a = "BFS"
    THEN BfsRun(b, get_deadlock(b), <<Root(b)>>, {Key(Root(b))}, 0)
    ELSE AstarRun(b, get_deadlock(b), << <<0, 0, Root(b)>> >>, (Key(Root(b)) :> 0), 1, 0)

InitUi ==
    /\ board = UiMaps[1]
    /\ deadlocks = {}
    /\ pc = "ui"
    /\ Idle
    /\ scene = "menu"
    /\ sk = [boxes |-> UiMaps[1].boxes, player |-> UiMaps[1].player]
    /\ applied = <<>>
    /\ solved = FALSE
    /\ AsyncIdle
    /\ NbrsIdle
    /\ LoadIdle
    /\ UiIdle

\* Enter / R / the Solve button in the menu: start_solve() builds the root of
\* the selected map, resets the flags and launches a thread; scene = "solving"
press_solve ==
    /\ scene = "menu"
    /\ Len(workers) < MaxSolves
    /\ cancel_event' = FALSE
    /\ solver_done' = FALSE
    /\ solver_result' = <<>>
    /\ result_by' = 0
    /\ workers' = Append(workers, [map |-> map_index, at |-> "start", algo |-> "none",
                                   expanded |-> 0])
    /\ scene' = "solving"
    /\ UNCHANGED <<board, deadlocks, algo, heuristic, depth_step, max_limit, stop_cb, pc,
                   frontier, visited, best_g, counter, limit, expanded, path, found, polls,
                   stopped, total, since, sk, applied, solved, avars, nvars, lvars, pvars,
                   map_index, algo_index, moves_by>>

\* C, Escape or B while solving: cancel_evt.set()
press_cancel ==
    /\ scene = "solving"
    /\ cancel_event' = TRUE
    /\ UNCHANGED <<board, deadlocks, algo, heuristic, depth_step, max_limit, stop_cb, pc,
                   frontier, visited, best_g, counter, limit, expanded, path, found, polls,
                   stopped, total, since, uvars, avars, nvars, lvars, gvars, pvars>>

\* Escape, B or the Back button while a solution is shown
press_back ==
    /\ scene \in {"running", "finished"}
    /\ scene' = "menu"
    /\ UNCHANGED <<svars, sk, applied, solved, avars, nvars, lvars, gvars, pvars>>

\* left / right on the map selector of the menu: cycle_map(delta)
cycle_map ==
    /\ scene = "menu"
    /\ \E delta \in {-1, 1} :
         map_index' = ((map_index - 1 + delta) % Len(UiMaps)) + 1
    /\ UNCHANGED <<svars, uvars, avars, nvars, lvars, pvars, algo_index, solver_done, solver_result,
                   workers, result_by, moves_by>>

\* left / right on the algorithm selector of the menu: cycle_algo(delta)
cycle_algo ==
    /\ scene = "menu"
    /\ algo_index' = IF algo_index = "BFS" THEN "A*" ELSE "BFS"
    /\ UNCHANGED <<svars, uvars, avars, nvars, lvars, pvars, map_index, solver_done, solver_result,
                   workers, result_by, moves_by>>

\* the top of the main loop while scene = "solving"
complete_solving ==
    /\ scene = "solving"
    /\ IF cancel_event
       THEN /\ scene' = "menu"
            /\ UNCHANGED <<board, sk, path, applied, solved, moves_by>>
       ELSE /\ solver_done
            /\ IF solver_result # <<>>
               THEN \* apply_solution_and_run
                    /\ board' = UiMaps[map_index]
                    /\ sk' = [boxes |-> UiMaps[map_index].boxes,
                              player |-> UiMaps[map_index].player]
                    /\ path' = solver_result
                    /\ applied' = <<>>
                    /\ solved' = FALSE
                    /\ scene' = "running"
                    /\ moves_by' = result_by
               ELSE /\ scene' = "menu"
                    /\ UNCHANGED <<board, sk, path, applied, solved, moves_by>>
    /\ UNCHANGED <<deadlocks, algo, heuristic, depth_step, max_limit, stop_cb, cancel_event,
                   pc, frontier, visited, best_g, counter, limit, expanded, found, polls,
                   stopped, total, since, avars, nvars, lvars, pvars, map_index, algo_index,
                   solver_done, solver_result, workers, result_by>>

\* the thread enters _worker and reads algo_list[algo_index]
_worker_begin(w) ==
    /\ workers[w].at = "start"
    /\ workers' = [workers EXCEPT ![w].at = "search", ![w].algo = algo_index]
    /\ UNCHANGED <<svars, uvars, avars, nvars, lvars, pvars, map_index, algo_index, solver_done,
                   solver_result, result_by, moves_by>>

\* the search of worker w up to the next call of stop_cb (expanded a multiple
\* of CHECK_EVERY) or up to its return, and the assignment solver_result = ...
_worker_search(w) ==
    /\ workers[w].at = "search"
    /\ LET r == SearchRun(UiMaps[workers[w].map], workers[w].algo)
           q == ((workers[w].expanded \div CHECK_EVERY) + 1) * CHECK_EVERY
       IN  IF q <= r.expanded /\ ~cancel_event
           THEN /\ workers' = [workers EXCEPT ![w].expanded = q]
                /\ UNCHANGED <<solver_result, result_by>>
           ELSE IF q > r.expanded /\ r.raised
           THEN /\ workers' = [workers EXCEPT ![w].at = "finally"]
                /\ UNCHANGED <<solver_result, result_by>>
           ELSE /\ workers' = [workers EXCEPT ![w].at = "finally"]
                /\ solver_result' = IF q <= r.expanded THEN <<>> ELSE r.path
                /\ result_by' = w
    /\ UNCHANGED <<svars, uvars, avars, nvars, lvars, pvars, map_index, algo_index, solver_done,
                   moves_by>>

\* finally: ... solver_done = True, and the thread ends
_worker_finally(w) ==
    /\ workers[w].at = "finally"
    /\ solver_done' = TRUE
    /\ workers' = [workers EXCEPT ![w].at = "exit"]
    /\ UNCHANGED <<svars, uvars, avars, nvars, lvars, pvars, map_index, algo_index, solver_result,
                   result_by, moves_by>>

_worker_step == \E w \in 1..Len(workers) :
                  _worker_begin(w) \/ _worker_search(w) \/ _worker_finally(w)

NextUi ==
    \/ press_solve \/ press_cancel \/ press_back \/ cycle_map \/ cycle_algo
    \/ complete_solving \/ Animate
    \/ _worker_step

SpecUi == InitUi /\ [][NextUi]_vars

-----------------------------------------------------------------------------
(* Specification SpecRestart: one AsyncSolver on which a caller starts a     *)
(* solve again after the solve before it has ended.                          *)

MaxRestarts == 2

RestartBoards == {AsyncSolvable, AsyncUnsolvable}

RestartAlgos == {"bfs", "astar"}

\* a caller starts a solve, the first or a later one
start_again == start_on(RestartBoards, RestartAlgos, MaxRestarts)

NextRestart ==
    \/ start_again
    \/ bfs_return_path
    \/ astar_return_path
    \/ progress_cb
    \/ worker
    \/ worker_finally
    \/ cancel
    \/ poll_progress

SpecRestart == InitAsync /\ [][NextRestart]_vars

-----------------------------------------------------------------------------
(* Claims *)

\* C1: a breadth-first search without cancellation, from a root that is not a goal and
\* from which a goal is reachable, returns a sequence of the minimum length over all
\* successor paths from the root to a goal.
C1_BfsShortest ==
    (pc = "done" /\ algo = "bfs" /\ stop_cb = "none"
       /\ ~reached_goal(board, Root(board)) /\ ShortestLen(board) # -1)
    => Len(path) = ShortestLen(board)

C1_Witness ==
    /\ pc = "done" /\ algo = "bfs" /\ stop_cb = "none"
    /\ ~reached_goal(board, Root(board))
    /\ Len(path) >= 5
    /\ Len(path) = ShortestLen(board)

\* C2: replaying a returned non-empty sequence on the initial board applies every token
\* (each apply_move_to_sokoban returns True) and ends with every box on a storage, the
\* player and the boxes being where the goal state found by the search has them.
C2_ReplayReachesGoal ==
    /\ \A i \in 1..Len(applied) : applied[i] = "True"
    /\ scene # "crashed"
    /\ scene = "finished" =>
         /\ Len(applied) = Len(path)
         /\ solved
         /\ \A bx \in sk.boxes : bx \in board.storages
         /\ sk.boxes = found.boxes
         /\ sk.player = found.player

C2_Witness ==
    /\ scene = "finished" /\ algo = "dfs"
    /\ Len(path) >= 4 /\ Len(applied) = Len(path)
    /\ sk.boxes # board.boxes
    /\ solved

\* C3: get_neighbors has a successor for direction d exactly when the adjacent cell A is
\* in bounds and no wall and either holds no box or the cell B beyond it is in bounds, no
\* wall, no box and no deadlock cell; the successor has the player at A and the boxes
\* unchanged (step) or with A replaced by B (push).
C3_Successors ==
    pc = "run" =>
      LET s    == Cur
          nbrs == get_neighbors(board, deadlocks, s)
      IN  /\ \A n \in Range(nbrs) : Len(n.move) = Len(s.move) + 1 /\ n.move[Len(n.move)] \in Dirs
          /\ \A m \in Dirs :
               LET A     == Toward(s.player, m, 1)
                   B     == Toward(s.player, m, 2)
                   legal == /\ A \in Cells(board.rows, board.cols)
                            /\ A \notin board.walls
                            /\ \/ A \notin s.boxes
                               \/ /\ B \in Cells(board.rows, board.cols)
                                  /\ B \notin board.walls
                                  /\ B \notin s.boxes
                                  /\ B \notin deadlocks
                   forM  == { i \in 1..Len(nbrs) : nbrs[i].move[Len(nbrs[i].move)] = m }
               IN  /\ (forM # {}) <=> legal
                   /\ Cardinality(forM) <= 1
                   /\ \A i \in forM :
                        /\ nbrs[i].player = A
                        /\ nbrs[i].boxes = IF A \in s.boxes THEN (s.boxes \ {A}) \cup {B}
                                           ELSE s.boxes

\* a push refused only because the cell beyond the box is a deadlock cell, in a state
\* that has other successors
C3_Witness ==
    /\ pc = "run"
    /\ get_neighbors(board, deadlocks, Cur) # <<>>
    /\ \E m \in Dirs :
         /\ Toward(Cur.player, m, 1) \in Cur.boxes
         /\ Toward(Cur.player, m, 2) \in Cells(board.rows, board.cols)
         /\ Toward(Cur.player, m, 2) \in deadlocks \ (Cur.boxes \cup board.walls)
         /\ \A n \in Range(get_neighbors(board, deadlocks, Cur)) : n.move[Len(n.move)] # m

\* C5: A* with the Manhattan heuristic, without cancellation, from a root from which a
\* goal is reachable, returns a sequence of minimum length.
C5_AstarShortest ==
    (pc = "done" /\ algo = "astar" /\ heuristic = "manhatten" /\ stop_cb = "none"
       /\ ShortestLen(board) # -1)
    => Len(path) = ShortestLen(board)

C5_Witness ==
    /\ pc = "done" /\ algo = "astar" /\ heuristic = "manhatten" /\ stop_cb = "none"
    /\ Len(path) >= 5
    /\ Len(path) = ShortestLen(board)

\* C6: manhatten() of a state from which a goal is reachable never exceeds the least
\* number of pushes of a move sequence leading from that state to a goal.
C6_ManhattenBelowPushes ==
    (total = 0 /\ pc = "run" /\ manhatten_defined(board, Root(board)) /\ MinPushes(board) # -1)
    => manhatten(board, Root(board)) <= MinPushes(board)

\* C4: every cell get_deadlock() returns is dead: a single box put on it is never
\* brought onto a storage by legal steps and pushes, wherever the player starts.
C4_FlaggedCellsDead ==
    pc = "walk" => \A bx \in sk.boxes : bx \notin board.storages

\* C7: in each of the six strategies a poll of the stop predicate that answers
\* true makes the strategy return the empty sequence at once, no further node is
\* expanded; and when the predicate is true at its first poll the strategy has
\* returned empty after at most CHECK_EVERY expansions.
C7_StopAtPoll ==
    /\ [][(polls' = polls + 1 /\ cancel_event)
            => (pc' = "done" /\ stopped' /\ path' = <<>>)]_vars
    /\ [][pc = "done" => total' = total]_vars
    /\ []((pc = "done" /\ stopped /\ polls = 1) => total <= CHECK_EVERY)

\* C8: in every strategy, ids included, no more than CHECK_EVERY nodes are
\* expanded after the stop predicate has become true (and stays true).
C8_LatencyBounded == since <= CHECK_EVERY

\* C9: AsyncSolver tags a finished solve "canceled" only when the strategy
\* returned empty because a poll of the stop predicate answered true; a solve
\* whose search exhausted its frontier without such a poll is tagged
\* "no-solution", whether or not cancel() was called while it ran.
C9_CanceledOnlyWhenObserved ==
    result # <<>> =>
        /\ result[1].reason = "canceled" => stopped
        /\ (pc = "done" /\ found = NoState /\ ~stopped) => result[1].reason = "no-solution"

\* C10: AsyncSolver reports "no-solution" only when the search ended with its
\* search space exhausted and no goal state reached; a solve whose search
\* reached a goal state, the root included, is not reported as no-solution.
C10_NoSolutionOnlyWhenExhausted ==
    (result # <<>> /\ result[1].reason = "no-solution")
        => (pc = "done" /\ found = NoState /\ ~stopped /\ frontier = <<>>)

\* C11: whatever the interleaving of start() calls made by several threads on
\* one AsyncSolver, at most one worker is alive at any time: a start() that
\* overlaps a solve in progress returns False and launches no worker.
C11_OneWorker ==
    Cardinality({ t \in Callers : threads[t] \in {"solve", "finally"} }) <= 1

\* C12: the progress channel of AsyncSolver never holds more than one unread
\* update: a report made while an earlier one is unread replaces it, so what
\* poll_progress returns next is the latest reported (expanded, elapsed) pair.
C12_OneSlot ==
    /\ Len(progress_q) <= 1
    /\ progress_q # <<>> => Head(progress_q) = <<_expanded_snapshot, Elapsed>>

\* C13: when solve_func raises inside the worker the exception stays in the
\* worker: result becomes a failure (ok false, path None, reason "error...")
\* with the last-seen expansion count and the elapsed time, and once the worker
\* has ended is_running() is False.
C13_ErrorResult ==
    /\ (pc = "raised" /\ _th \in {"finally", "exit"})
         => result = << [ok |-> FALSE, path |-> <<>>, expanded |-> _expanded_snapshot,
                         elapsed |-> Elapsed, reason |-> "error"] >>
    /\ (pc = "raised" /\ _th = "exit") => ~_running

\* a solve whose strategy raised after progress was reported has ended
C13_Witness ==
    /\ pc = "raised" /\ _th = "exit"
    /\ result # <<>> /\ result[1].reason = "error"
    /\ progress_q # <<>>

\* C14: for a root that already satisfies reached_goal each of the six strategies
\* returns the empty sequence at its first pop: nothing was expanded, no
\* successor was generated (visited set, best_g and counter are as on entry) and
\* the stop predicate was not polled.
C14_GoalRoot ==
    (reached_goal(board, Root(board)) /\ pc # "run")
        => /\ pc = "done" /\ path = <<>> /\ found = Root(board) /\ ~stopped
           /\ total = 0 /\ expanded = 0 /\ polls = 0
           /\ frontier = <<>>
           /\ visited = Entry(board, algo, heuristic).visited
           /\ best_g = Entry(board, algo, heuristic).best_g
           /\ counter = Entry(board, algo, heuristic).counter

\* greedy has returned on a puzzle whose only box stands on a storage
C14_Witness ==
    /\ pc = "done" /\ algo = "greedy"
    /\ board.boxes # {} /\ reached_goal(board, Root(board))

\* the states of the heap entries (priority, count, state), in insertion order
StatesOf(pq) == [i \in 1..Len(pq) |-> pq[i][3]]

\* C15: with unit edge costs ucs_return_path is bfs_return_path: read with its
\* heap as the queue of the states it holds and the keys of best_g as the
\* visited set, every step of ucs is the step bfs makes (the same state is
\* popped, the same successors are appended in the same order), so both expand
\* the states in the same order and return the same move sequence.
C15_UcsIsBfs ==
    [][(algo = "ucs" /\ pc = "run") =>
         LET top == popleft(StatesOf(frontier))
             r   == VisitLoop(get_neighbors(board, deadlocks, top.curr),
                              DOMAIN best_g, top.rest)
         IN  IF reached_goal(board, top.curr)
             THEN /\ pc' = "done" /\ path' = top.curr.move /\ found' = top.curr
                  /\ StatesOf(frontier') = top.rest
                  /\ DOMAIN best_g' = DOMAIN best_g
                  /\ total' = total
             ELSE /\ StatesOf(frontier') = r.frontier
                  /\ DOMAIN best_g' = r.visited
                  /\ total' = total + 1
                  /\ pc' = (IF r.frontier = <<>> THEN "done" ELSE "run")
                  /\ path' = <<>>]_vars

\* ucs has returned a sequence of three moves or more
C15_Witness == algo = "ucs" /\ pc = "done" /\ Len(path) >= 3 /\ total >= 3

\* the place of a direction in the order get_neighbors tries them
DirRank(m) == IF m = "u" THEN 1 ELSE IF m = "d" THEN 2 ELSE IF m = "l" THEN 3 ELSE 4

\* the state reached from s by taking, token after token, the successor
\* get_neighbors lists for that token: <<state>>, or << >> when a token has none
RECURSIVE Descend(_, _, _, _)
Descend(b, dl, s, mv) ==
    IF mv = <<>> THEN <<s>>
    ELSE LET nx == SelectSeq(get_neighbors(b, dl, s),
                             LAMBDA n : n.move[Len(n.move)] = Head(mv))
         IN  IF nx = <<>> THEN <<>> ELSE Descend(b, dl, nx[1], Tail(mv))

\* the states a strategy holds in its frontier
FrontierStates ==
    IF algo \in {"bfs", "dfs", "ids"} THEN Range(frontier)
    ELSE { frontier[i][3] : i \in 1..Len(frontier) }

\* C16: get_neighbors lists its successors in the order up, down, left, right,
\* leaving out the illegal directions; the move history of each successor is
\* the history of its parent with one token appended, the token of the
\* direction the player went; so every state a search holds is reached from
\* the root by as many successor steps as its history is long, its depth.
C16_HistoryIsDepth ==
    pc = "run" =>
      LET s    == Cur
          nbrs == get_neighbors(board, deadlocks, s)
      IN  /\ \A i, j \in 1..Len(nbrs) :
                i < j => DirRank(nbrs[i].move[Len(nbrs[i].move)])
                           < DirRank(nbrs[j].move[Len(nbrs[j].move)])
          /\ \A i \in 1..Len(nbrs) :
                \E m \in Dirs :
                   /\ nbrs[i].move = s.move \o <<m>>
                   /\ nbrs[i].player = Toward(s.player, m, 1)
          /\ \A t \in FrontierStates :
                Descend(board, deadlocks, Root(board), t.move) = <<t>>
          /\ algo \in {"ucs", "astar"} =>
                \A i \in 1..Len(frontier) :
                   best_g[Key(frontier[i][3])] <= Len(frontier[i][3].move)

\* a state four moves below the root is expanded and has a successor in each
\* of three directions or more, one of them a push
C16_Witness ==
    /\ pc = "run" /\ Len(Cur.move) >= 4
    /\ LET nbrs == get_neighbors(board, deadlocks, Cur)
       IN  /\ Len(nbrs) >= 3
           /\ \E i \in 1..Len(nbrs) : nbrs[i].boxes # Cur.boxes

\* C17: get_neighbors is idempotent: however often it is called on a state,
\* every call returns the same sequence (same length, and at each index the
\* same player, boxes and move history), and no call changes the player, the
\* boxes or the move history of the state it is called on.
C17_Idempotent ==
    pc = "nbrs" =>
      /\ \A i \in 1..Len(returned) :
            /\ Len(returned[i]) = Len(returned[1])
            /\ \A k \in 1..Len(returned[i]) :
                  /\ returned[i][k].player = returned[1][k].player
                  /\ returned[i][k].boxes = returned[1][k].boxes
                  /\ returned[i][k].move = returned[1][k].move
      /\ obj.player = obj0.player
      /\ obj.boxes = obj0.boxes
      /\ obj.move = obj0.move

\* three calls on a state two moves below the root, answered from the cache
\* after the first, whose successors include a push
C17_Witness ==
    /\ pc = "nbrs" /\ Len(returned) = MaxCalls
    /\ obj._neighbors_cache # <<>>
    /\ Len(obj.move) >= 2
    /\ Len(returned[1]) >= 2
    /\ \E k \in 1..Len(returned[1]) : returned[1][k].boxes # obj.boxes

\* C18: on every board the set get_deadlock() returns holds no wall cell and no
\* storage cell, and each of its members lies inside the board (rows 1..height,
\* columns 1..width).
C18_DeadlockCells ==
    pc = "walk" =>
      \A c \in deadlocks :
         /\ c \notin board.walls
         /\ c \notin board.storages
         /\ c[1] \in 1..board.rows
         /\ c[2] \in 1..board.cols

\* a storage in a corner of two walls is left out while another cell is flagged
C18_Witness ==
    /\ pc = "walk" /\ deadlocks # {}
    /\ \E g \in board.storages : corner_test(board, g) /\ g \notin deadlocks

\* C19: every cell inside the board that is neither a wall nor a storage and
\* has a wall on two perpendicular sides (above or below it, together with left
\* or right of it) is in the set get_deadlock() returns.
C19_CornersFlagged ==
    pc = "walk" =>
      \A c \in Cells(board.rows, board.cols) \ (board.walls \cup board.storages) :
         (/\ \E v \in {get_up_neighbor(c), get_down_neighbor(c)} : v \in board.walls
          /\ \E z \in {get_left_neighbor(c), get_right_neighbor(c)} : z \in board.walls)
         => c \in deadlocks

\* a flagged cell with a wall below it and a wall left of it, and no third wall
\* that would make it part of a walled boundary
C19_Witness ==
    /\ pc = "walk"
    /\ \E c \in deadlocks :
         /\ get_down_neighbor(c) \in board.walls
         /\ get_left_neighbor(c) \in board.walls
         /\ ~boundary_test(board, c)

\* the player of the loaded board stands next to its only box, the box being
\* in direction m, and the cell beyond the box in that direction is a storage
PushLine(m) ==
    /\ Cardinality(board.boxes) = 1
    /\ Toward(board.player, m, 1) \in board.boxes
    /\ Toward(board.player, m, 2) \in board.storages

\* C20 as stated: on a board with exactly one box, the player next to the box
\* and the cell beyond the box in that direction a storage, astar_return_path
\* with the manhatten heuristic returns the one-token sequence of that direction.
C20_OnePush_AsStated ==
    (algo = "astar" /\ heuristic = "manhatten" /\ pc \in {"done", "raised"}) =>
      \A m \in Dirs : PushLine(m) => (pc = "done" /\ path = <<m>>)

\* C20: on a board with exactly one box that is not on a storage, the player
\* next to the box and the cell beyond the box in that direction a storage that
\* is not a wall, astar_return_path with the manhatten heuristic returns the
\* one-token sequence of that direction.
C20_OnePush ==
    (algo = "astar" /\ heuristic = "manhatten" /\ pc \in {"done", "raised"}) =>
      \A m \in Dirs :
         (/\ PushLine(m)
          /\ Toward(board.player, m, 1) \notin board.storages
          /\ Toward(board.player, m, 2) \notin board.walls)
         => (pc = "done" /\ path = <<m>>)

\* astar has returned the single push to the left on a board with a wall, after
\* expanding the root, whose other successors it left in the heap
C20_Witness ==
    /\ algo = "astar" /\ heuristic = "manhatten" /\ pc = "done"
    /\ PushLine("l")
    /\ Toward(board.player, "l", 1) \notin board.storages
    /\ Toward(board.player, "l", 2) \notin board.walls
    /\ board.walls # {}
    /\ path = <<"l">>
    /\ total = 1
    /\ frontier # <<>>

\* the distance sum of the heuristic: from the player to the nearest box, plus
\* from every box to its nearest storage
L1Sum(s) == manhatten(board, s)

\* C21: called with the heuristic name "manhattan", greedy_return_path and
\* astar_return_path rank the entries they push with h(state) = L1 distance
\* from the player to the nearest box plus the sum over the boxes of the L1
\* distance to the nearest storage: a greedy entry has priority h, an astar
\* entry pushed for a successor has priority history length + h.
C21_ManhattanRanks ==
    (heuristic = "manhattan" /\ pc = "run") =>
      \A i \in 1..Len(frontier) :
         LET e == frontier[i]
         IN  (manhatten_defined(board, e[3]) /\ (algo = "astar" => e[2] # 0))
             => e[1] = (IF algo = "astar" THEN Len(e[3].move) ELSE 0) + L1Sum(e[3])

\* the coordinate pairs written on a line of the file, whatever its count says
Written(line) == IF line = <<>> THEN {} ELSE PairsAt(Tail(line))

\* some coordinate of the file is off the board, or the player or a box is on
\* a wall
Defective(f) ==
    LET onBoard(q) == q[1] \in 1..f.dims[1] /\ q[2] \in 1..f.dims[2]
    IN  \/ \E q \in Written(f.walls) \cup Written(f.boxes) \cup Written(f.goals)
                    \cup {f.player} : ~onBoard(q)
        \/ f.player \in Written(f.walls)
        \/ Written(f.boxes) \cap Written(f.walls) # {}

\* C22: Sokoban.read_input accepts a puzzle only if every wall, box, storage
\* and player coordinate lies in rows 1..rows and columns 1..cols and neither
\* the player nor a box is on a wall; otherwise it raises, and no State is
\* built from such a puzzle.
C22_LoaderRejects ==
    (pc \in {"loaded", "built", "raised"} /\ Defective(file)) =>
      /\ pc = "raised"
      /\ board = NoBoard
      /\ obj = NewState(NoState)

\* a file whose only defect is a box written on a wall cell has been refused
C22_Witness ==
    /\ pc = "raised"
    /\ file.dims = <<2, 2>>
    /\ Written(file.boxes) = Written(file.walls)
    /\ Written(file.boxes) = {<<2, 1>>}
    /\ file.player = <<1, 1>>
    /\ ~_parse_and_load_pairs(file.goals, 2, 2).raised

\* going from cell c in direction (dx, dy) over the cells of the board, a
\* storage that is no wall is met before any wall
StorageFirst(b, c, dx, dy) ==
    \E n \in 1..(b.rows + b.cols) :
       LET t == Point(c[1] + n * dx, c[2] + n * dy)
       IN  /\ t \in Cells(b.rows, b.cols)
           /\ t \in b.storages
           /\ \A k \in 1..n : Point(c[1] + k * dx, c[2] + k * dy) \notin b.walls

\* C23: boundary_test never flags a cell when the scan from that cell along the
\* wall next to it (up and down beside a wall to its left or right, otherwise
\* left and right beside a wall above or below it) meets, in either direction
\* over the cells of the board, a storage before any wall; a storage in the
\* last row or the last column counts like any other.
C23_StorageStopsScan ==
    pc = "walk" =>
      \A c \in Cells(board.rows, board.cols) \ (board.walls \cup board.storages) :
         LET beside == get_left_neighbor(c) \in board.walls
                         \/ get_right_neighbor(c) \in board.walls
             under  == get_up_neighbor(c) \in board.walls
                         \/ get_down_neighbor(c) \in board.walls
         IN  /\ (beside /\ (StorageFirst(board, c, -1, 0) \/ StorageFirst(board, c, 1, 0)))
                  => ~boundary_test(board, c)
             /\ (~beside /\ under
                   /\ (StorageFirst(board, c, 0, -1) \/ StorageFirst(board, c, 0, 1)))
                  => ~boundary_test(board, c)

\* C24: breadth-first, depth-first, uniform-cost, greedy and A* search, run
\* without cancellation on a root that is not a goal, return the empty sequence
\* if and only if no goal state is reachable from the root through get_neighbors
\* successors.
C24_EmptyIffUnreachable ==
    (pc \in {"done", "raised"} /\ algo \in Algos \ {"ids"} /\ stop_cb = "none"
       /\ ~reached_goal(board, Root(board)))
    => (pc = "done" /\ path = <<>>) <=> (ShortestLen(board) = -1)

\* C25: for any depth_step >= 1 and max_limit >= 50, ids_return_path run
\* without cancellation returns a non-empty sequence whenever a goal state is
\* reachable from a root that is not a goal by a successor path of at most
\* max_limit moves.
C25_IdsFindsGoal ==
    (algo = "ids" /\ pc = "done" /\ stop_cb = "none" /\ depth_step >= 1 /\ max_limit >= 50
       /\ ~reached_goal(board, Root(board))
       /\ ShortestLen(board) # -1 /\ ShortestLen(board) <= max_limit)
    => path # <<>>

C27_IdsBound ==
    algo = "ids" =>
      /\ total = 0 => limit = IDS_START
      /\ pc = "run" =>
           /\ limit >= IDS_START /\ (limit - IDS_START) % depth_step = 0
           /\ limit <= max_limit
           /\ \A i \in 1..Len(frontier) : Len(frontier[i].move) <= limit
      /\ (pc = "done" /\ path # <<>>) =>
           /\ Len(path) <= limit
           /\ Len(path) <= max_limit

\* the second pass, with bound 51, has returned a sequence of 51 tokens after
\* the first pass was exhausted
C27_Witness ==
    /\ algo = "ids" /\ pc = "done"
    /\ depth_step = 1 /\ limit = IDS_START + 1
    /\ Len(path) = limit
    /\ total > expanded

\* C28: in breadth-first, depth-first and greedy search no configuration
\* (player, boxes) is put on the frontier twice, by whatever move history it is
\* reached: the frontier entries are configurations of visited, pairwise
\* different, and as many configurations were enqueued as visited holds, each
\* of them popped and expanded once at most.
C28_EnqueuedOnce ==
    (algo \in {"bfs", "dfs", "greedy"} /\ pc \in {"run", "done"}) =>
      LET st(i) == IF algo = "greedy" THEN frontier[i][3] ELSE frontier[i]
      IN  /\ \A i \in 1..Len(frontier) : Key(st(i)) \in visited
          /\ \A i, j \in 1..Len(frontier) : Key(st(i)) = Key(st(j)) => i = j
          /\ Len(frontier) + total + (IF found # NoState THEN 1 ELSE 0) = Cardinality(visited)

\* a successor of the state being expanded is a configuration visited already,
\* reached now by a history of four moves or more
C28_Witness ==
    /\ algo = "dfs" /\ pc = "run" /\ total >= 3
    /\ \E n \in Range(get_neighbors(board, deadlocks, Cur)) :
         /\ Key(n) \in visited
         /\ Len(n.move) >= 4
         /\ \A t \in FrontierStates : Key(t) # Key(n)

\* C29: in uniform-cost and A* search a configuration already recorded in
\* best_g is pushed on the frontier again only when the new path length is
\* strictly smaller than the recorded one; the recorded value of a configuration
\* never increases, and whenever it is set it is the history length of an entry
\* pushed for that configuration in the same step (at entry: of the root).
C29_BestG ==
    /\ (algo \in {"ucs", "astar"} /\ total = 0 /\ pc = "run") =>
         /\ best_g = (Key(Root(board)) :> 0)
         /\ \E i \in 1..Len(frontier) :
              frontier[i][3] = Root(board) /\ Len(frontier[i][3].move) = 0
    /\ [][(algo \in {"ucs", "astar"} /\ pc = "run") =>
            LET pushed == { i \in 1..Len(frontier') : frontier'[i][2] >= counter }
            IN  /\ \A k \in DOMAIN best_g :
                     k \in DOMAIN best_g' /\ best_g'[k] <= best_g[k]
                /\ \A i \in pushed :
                     LET s == frontier'[i][3]
                     IN  /\ Key(s) \in DOMAIN best_g => Len(s.move) < best_g[Key(s)]
                         /\ best_g'[Key(s)] = Len(s.move)
                /\ \A k \in DOMAIN best_g' :
                     (k \notin DOMAIN best_g \/ best_g'[k] # best_g[k])
                     => \E i \in pushed : Key(frontier'[i][3]) = k
                                          /\ Len(frontier'[i][3].move) = best_g'[k]
                /\ Cardinality(pushed) = counter' - counter
          ]_vars

\* the state being expanded has a successor whose configuration is recorded in
\* best_g with the very path length the successor has: it is not pushed again
C29_Witness ==
    /\ algo = "astar" /\ pc = "run" /\ total >= 3
    /\ \E n \in Range(get_neighbors(board, deadlocks, Cur)) :
         /\ Key(n) \in DOMAIN best_g
         /\ best_g[Key(n)] = Len(n.move)
         /\ Key(n) # Key(Root(board))

\* C30: in uniform-cost, greedy and A* search the insertion sequence numbers of
\* the frontier entries are pairwise different and smaller than the next number
\* of the counter, so that any two entries are ordered by (priority, count)
\* alone and the State objects are never compared; the entries pushed in a step
\* get the next numbers of the counter in the order of their insertion, and the
\* entry a step pops has the least priority and, among the entries of its
\* priority, the smallest sequence number.
C30_TieBreak ==
    /\ [](algo \in {"ucs", "greedy", "astar"} =>
            /\ \A i \in 1..Len(frontier) : frontier[i][2] \in 0..(counter - 1)
            /\ \A i, j \in 1..Len(frontier) :
                 i # j => /\ frontier[i][2] # frontier[j][2]
                          /\ Before(frontier[i], frontier[j])
                               \/ Before(frontier[j], frontier[i]))
    /\ [][(algo \in {"ucs", "greedy", "astar"} /\ pc = "run") =>
            LET pushed == { i \in 1..Len(frontier') : frontier'[i][2] >= counter }
                popped == { i \in 1..Len(frontier) :
                              \A j \in 1..Len(frontier') :
                                 frontier'[j][2] # frontier[i][2] }
            IN  /\ counter' >= counter
                /\ { frontier'[i][2] : i \in pushed } = counter..(counter' - 1)
                /\ \A i, j \in pushed :
                     i < j => frontier'[i][2] < frontier'[j][2]
                /\ Cardinality(popped) <= 1
                /\ \A i \in popped : \A j \in 1..Len(frontier) :
                     j # i => /\ frontier[i][1] <= frontier[j][1]
                              /\ frontier[i][1] = frontier[j][1]
                                   => frontier[i][2] < frontier[j][2]
          ]_vars

\* a step of greedy search is about to pop from a frontier that holds two
\* entries of the least priority, one of them pushed by an earlier step
C30_Witness ==
    /\ algo = "greedy" /\ pc = "run" /\ total >= 1
    /\ \E i, j \in 1..Len(frontier) :
         /\ i # j
         /\ frontier[i][1] = frontier[j][1]
         /\ \A k \in 1..Len(frontier) : frontier[i][1] <= frontier[k][1]
         /\ Cur = frontier[i][3]
         /\ frontier[i][2] < frontier[j][2]

\* C31: every state a search holds, and every successor get_neighbors lists
\* for the state about to be expanded, has as many boxes as the root, has no
\* box on a wall cell and has all its boxes inside the board.
C31_BoxesKept ==
    pc = "run" =>
      \A s \in FrontierStates \cup Range(get_neighbors(board, deadlocks, Cur)) :
         /\ Cardinality(s.boxes) = Cardinality(board.boxes)
         /\ s.boxes \cap board.walls = {}
         /\ \A bx \in s.boxes : inbound(board, bx[1], bx[2])

\* a search on a board with a wall holds a state two pushes away from the root
C31_Witness ==
    /\ pc = "run" /\ board.walls # {} /\ board.boxes # {}
    /\ \E s \in FrontierStates :
         /\ Len(s.move) >= 2
         /\ Cardinality(s.boxes \ board.boxes) >= 1
         /\ \E n \in Range(get_neighbors(board, deadlocks, s)) : n.boxes # s.boxes

\* C32: in every state a search holds, and in every successor listed for the
\* state about to be expanded, a box that stands on a cell of the deadlock set
\* stands on a cell that held a box in the root state; no listed successor has
\* a box on a deadlock cell that its parent had not.
C32_DeadlockBoxesAreRootBoxes ==
    pc = "run" =>
      /\ \A s \in FrontierStates \cup Range(get_neighbors(board, deadlocks, Cur)) :
            s.boxes \cap deadlocks \subseteq board.boxes
      /\ \A n \in Range(get_neighbors(board, deadlocks, Cur)) :
            (n.boxes \ Cur.boxes) \cap deadlocks = {}

\* the root has a box on a deadlock cell, and the state about to be expanded,
\* reached by a push, has a box next to the player with a deadlock cell behind it
C32_Witness ==
    /\ pc = "run" /\ board.boxes \cap deadlocks # {}
    /\ Cur.boxes # board.boxes
    /\ \E m \in Dirs :
         /\ Toward(Cur.player, m, 1) \in Cur.boxes
         /\ Toward(Cur.player, m, 2) \in deadlocks \ (board.walls \cup Cur.boxes)

\* C33: a call of get_neighbors leaves every field of the state it is called on
\* as its constructor set it, the successor cache apart; a successor made by a
\* push has a box set of its own, which differs from the parent's in the pushed
\* box, while the parent's box set stays as it was; the state the walk stands
\* on and every successor listed for it have the walls, the storages, the
\* deadlock set and the dimensions of the root.
C33_ParentUntouched ==
    pc = "nbrs" =>
      /\ [obj EXCEPT !._neighbors_cache = <<>>] = obj0
      /\ obj.walls = board.walls /\ obj.storages = board.storages
      /\ obj.deadlocks = deadlocks
      /\ obj.rows = board.rows /\ obj.cols = board.cols
      /\ \A i \in 1..Len(returned) : \A k \in 1..Len(returned[i]) :
            LET n == SuccessorObject(obj, returned[i][k])
            IN  /\ n.walls = board.walls /\ n.storages = board.storages
                /\ n.deadlocks = deadlocks
                /\ n.rows = board.rows /\ n.cols = board.cols
                /\ n.boxes # obj0.boxes =>
                     /\ obj.boxes = obj0.boxes
                     /\ Cardinality(n.boxes \ obj.boxes) = 1
                     /\ Cardinality(obj.boxes \ n.boxes) = 1
                     /\ n.player \in obj.boxes \ n.boxes

\* get_neighbors was called on a state below the root of a map with walls,
\* storages and deadlock cells, and one of the listed successors is a push
C33_Witness ==
    /\ pc = "nbrs" /\ returned # <<>>
    /\ Len(obj.move) >= 1
    /\ board.walls # {} /\ board.storages # {} /\ deadlocks # {}
    /\ \E k \in 1..Len(returned[1]) : returned[1][k].boxes # obj0.boxes

\* C34: a search that finished on a root State object on which searches ran
\* before, with the same strategy as the first of them (which found the root
\* fresh), ended the way that first search did: it returned the same move
\* sequence, or raised as the first did, after the same number of expansions.
C34_SameResult ==
    (pc \in {"done", "raised"} /\ runs # <<>> /\ algo = runs[1].algo) =>
       /\ pc = runs[1].pc
       /\ path = runs[1].path
       /\ total = runs[1].total

\* the third search on a root returned a sequence of moves; it expanded states
\* whose successor lists were cached by the two searches before it, the second
\* of them with another strategy and another result
C34_Witness ==
    /\ pc = "done" /\ Len(runs) = 2 /\ algo = runs[1].algo
    /\ runs[2].algo # algo /\ runs[2].path # path
    /\ Len(path) >= 3 /\ total >= 3
    /\ \A i \in 0..(Len(path) - 1) : SubSeq(path, 1, i) \in DOMAIN cached

\* C35: at most one _worker thread is alive at a time, and while the UI is in
\* the running scene the list it replays was assigned to solver_result by the
\* worker of the most recent start_solve, which searched the selected map.
C35_OneWorkerFreshMoves ==
    /\ Cardinality({ w \in 1..Len(workers) : workers[w].at # "exit" }) <= 1
    /\ scene = "running" =>
         /\ moves_by = Len(workers)
         /\ workers[moves_by].map = map_index

\* C36: an update poll_progress returns was put on progress_q by the solve of
\* the latest start() that returned True, not by a solve before it.
C36_NoStaleProgress ==
    \A i \in 1..Len(polled) : polled[i].by = polled[i].at

\* C37: a start() call that tests is_running() while a worker is inside
\* solve_func returns False, and the call changes neither the cancel flag nor
\* result nor the expansion snapshot nor the running flag nor any worker.
C37_RefusedWhileRunning ==
    [][\A t \in Callers :
          (/\ calls[t] = "idle"
           /\ calls'[t] # "idle"
           /\ \E u \in Callers : threads[u] = "solve")
          => /\ calls'[t] = "False"
             /\ UNCHANGED <<cancel_event, result, _expanded_snapshot, _running, _th,
                            threads, starts>>
      ]_vars

\* C38: once a start() has returned True and no start() call is under way,
\* is_running() is False only with result set, the worker storing result
\* before it clears the running flag.
C38_ResultBeforeIdle ==
    (/\ \A t \in Callers : calls[t] \in {"idle", "False", "True"}
     /\ \E t \in Callers : calls[t] = "True"
     /\ ~_running)
    => result # <<>>

\* C39: greedy_return_path and astar_return_path called with the Manhattan
\* heuristic never end in an exception raised by the evaluation of the
\* heuristic, whatever accepted puzzle they are given, one with a box and no
\* storage included.
C39_HeuristicNeverRaises ==
    (algo \in {"greedy", "astar"} /\ heuristic = "manhatten") => pc # "raised"

====
